---------------------------- MODULE Spec2Model ----------------------------
(***************************************************************************)
(* Model of streamlit-markdown: the ImageHandler image store               *)
(* (src/streamlit_markdown/image_handler.py) and the per-key render caches *)
(* of st_markdown (src/streamlit_markdown/__init__.py).                    *)
(*                                                                         *)
(* Strings are sequences of lexemes (TLA+ strings): "a.png" is             *)
(* <<"a", ".png">>, "s/a.png" is <<"s", "/", "a", ".png">>.  Every string *)
(* of the model is written as one lexeme sequence only, so two Python      *)
(* strings are equal exactly when their lexeme sequences are.  Byte        *)
(* strings are sequences of byte lexemes, the decimal numerals "0".."255". *)
(***************************************************************************)
EXTENDS Integers, Sequences, FiniteSets, TLC

VARIABLES
    fs,        \* regular files: absolute path (sequence of components) -> bytes
    dirs,      \* existing directories: set of absolute paths
    now,       \* the wall clock, in seconds
    cache,     \* _image_conversion_cache: cache key -> None or <<hash, converted>>
    lastSent,  \* _last_sent_default: cache key -> None or hash
    lastValue, \* history: cache key -> the value of its latest st_markdown call
    lastPreview, \* history: cache key -> the converted text its latest call got
    document,  \* the markup text the application holds
    unreadable,\* the regular files (absolute paths) that this process may not read
    callers,   \* concurrent st_markdown calls: caller -> its position and locals
    last       \* the last call: its name, arguments and result

\* The render caches and their history.
caches == <<cache, lastSent, lastValue, lastPreview>>

\* What no call of the store or of a sequential st_markdown changes.
frame == <<document, unreadable, callers>>

vars == <<fs, dirs, now, cache, lastSent, lastValue, lastPreview, document, unreadable,
          callers, last>>

\* Python's None: a one-lexeme sequence that no str or bytes value equals.
None == <<"None">>

-----------------------------------------------------------------------------
(* Strings *)

\* str.startswith(prefix) for a one-lexeme prefix.
StartsWith(s, prefix) == Len(s) >= 1 /\ s[1] = prefix

\* str.startswith(("http://", "https://", "data:")).
StartsWithAny(s, prefixes) == \E p \in prefixes : StartsWith(s, p)

\* The index of the first occurrence of lexeme c in s at or after i, 0 when none.
RECURSIVE Find(_, _, _)
Find(s, c, i) ==
    IF i > Len(s) THEN 0
    ELSE IF s[i] = c THEN i
    ELSE Find(s, c, i + 1)

\* s[i..j], empty when j < i.
Slice(s, i, j) == IF j < i THEN <<>> ELSE SubSeq(s, i, j)

\* The concatenation of a sequence of strings.
RECURSIVE Concat(_)
Concat(ss) == IF ss = <<>> THEN <<>> ELSE Head(ss) \o Concat(Tail(ss))

-----------------------------------------------------------------------------
(* pathlib.Path (PurePosixPath) on lexeme strings *)

\* str.split("/") : the pieces between the "/" lexemes (empty pieces included).
RECURSIVE SplitSlash(_)
SplitSlash(s) ==
    LET i == Find(s, "/", 1)
    IN  IF i = 0 THEN <<s>>
        ELSE <<Slice(s, 1, i - 1)>> \o SplitSlash(Slice(s, i + 1, Len(s)))

\* Path(s): [abs, parts].  Empty pieces and "." pieces are dropped.
Path(s) ==
    LET pieces == SplitSlash(s)
    IN  [abs   |-> StartsWith(s, "/"),
         parts |-> SelectSeq(pieces, LAMBDA c : c # <<>> /\ c # <<".">>)]

\* a "/" joined sequence of components.
RECURSIVE JoinSlash(_)
JoinSlash(parts) ==
    IF parts = <<>> THEN <<>>
    ELSE IF Len(parts) = 1 THEN parts[1]
    ELSE parts[1] \o <<"/">> \o JoinSlash(Tail(parts))

\* str(path).
PathStr(p) ==
    IF p.abs THEN <<"/">> \o JoinSlash(p.parts)
    ELSE IF p.parts = <<>> THEN <<".">>
    ELSE JoinSlash(p.parts)

\* path / other : an absolute right operand replaces the left one.
PathJoin(p, q) == IF q.abs THEN q ELSE [abs |-> p.abs, parts |-> p.parts \o q.parts]

\* path.name : the last component, "" when there is none.
PathName(p) == IF p.parts = <<>> THEN <<>> ELSE p.parts[Len(p.parts)]

\* The lexemes that are a dot followed by an extension.
ExtLexemes == {".png", ".jpg", ".jpeg", ".gif", ".webp", ".svg", ".txt", ".PNG", ".bmp"}

\* path.suffix : the last dotted part of the name, when a stem precedes it.
PathSuffix(p) ==
    LET name == PathName(p)
    IN  IF Len(name) >= 2 /\ name[Len(name)] \in ExtLexemes
        THEN <<name[Len(name)]>> ELSE <<>>

\* str.lower() on a suffix.
Lower(s) == [i \in 1..Len(s) |-> IF s[i] = ".PNG" THEN ".png" ELSE s[i]]

\* The process's working directory.
Cwd == <<<<"w">>>>

\* Drop ".." components lexically (the model has no symbolic links).
RECURSIVE Normalize(_, _)
Normalize(parts, acc) ==
    IF parts = <<>> THEN acc
    ELSE IF Head(parts) = <<"..">>
         THEN Normalize(Tail(parts), Slice(acc, 1, Len(acc) - 1))
         ELSE Normalize(Tail(parts), Append(acc, Head(parts)))

\* path.resolve() : the absolute path, as a sequence of components.
Resolve(p) == Normalize(p.parts, IF p.abs THEN <<>> ELSE Cwd)

\* str(path.resolve()).
ResolveStr(p) == PathStr([abs |-> TRUE, parts |-> Resolve(p)])

-----------------------------------------------------------------------------
\* MARKDOWN_IMAGE_PATTERN: "!" "[" alt "]" "(" path ")", where alt is any run
\* of lexemes other than "]" and path is a non-empty run of lexemes other than ")".

\* re.match of MARKDOWN_IMAGE_PATTERN at position i of s: [ok, alt, path, end].
\* Both character classes exclude their own terminator, so the greedy runs end
\* at the first "]" and the first ")" and backtracking finds nothing else.
MatchAt(s, i) ==
    LET k == Find(s, "]", i + 2)
        j == Find(s, ")", k + 2)
        ok == /\ i + 1 <= Len(s)
              /\ s[i] = "!"
              /\ s[i + 1] = "["
              /\ k # 0
              /\ k + 1 <= Len(s)
              /\ s[k + 1] = "("
              /\ j > k + 2
    IN  IF ok
        THEN [ok |-> TRUE, start |-> i, alt |-> Slice(s, i + 2, k - 1),
              path |-> Slice(s, k + 2, j - 1), end |-> j]
        ELSE [ok |-> FALSE, start |-> i, alt |-> <<>>, path |-> <<>>, end |-> i]

\* MARKDOWN_IMAGE_PATTERN.finditer(s) from position i: the leftmost
\* non-overlapping matches, in order.
RECURSIVE FindIter(_, _)
FindIter(s, i) ==
    IF i > Len(s) THEN <<>>
    ELSE LET m == MatchAt(s, i)
         IN  IF m.ok THEN <<m>> \o FindIter(s, m.end + 1)
             ELSE FindIter(s, i + 1)

\* The prefixes of a target that is not a local file.
RemotePrefixes == {"http://", "https://", "data:"}

\* extract_image_paths that skips only the http:// and https:// targets.
extract_image_paths_with_data(markdown_content) ==
    LET matches == FindIter(markdown_content, 1)
    IN  {matches[n].path : n \in {n \in 1..Len(matches) :
                                   ~StartsWithAny(matches[n].path, {"http://", "https://"})}}

\* ImageHandler.extract_image_paths(markdown_content).
extract_image_paths(markdown_content) ==
    LET matches == FindIter(markdown_content, 1)
    IN  {matches[n].path : n \in {n \in 1..Len(matches) :
                                   ~StartsWithAny(matches[n].path, RemotePrefixes)}}

-----------------------------------------------------------------------------
(* Lexemes, hashlib.md5 and base64 *)

\* The base64 alphabet, value 0 first.
B64Alphabet ==
    << "A", "B", "C", "D", "E", "F", "G", "H", "I", "J", "K", "L", "M",
       "N", "O", "P", "Q", "R", "S", "T", "U", "V", "W", "X", "Y", "Z",
       "a", "b", "c", "d", "e", "f", "g", "h", "i", "j", "k", "l", "m",
       "n", "o", "p", "q", "r", "s", "t", "u", "v", "w", "x", "y", "z",
       "0", "1", "2", "3", "4", "5", "6", "7", "8", "9", "+", "/" >>

\* Every lexeme a string of the model is made of.
Lexemes ==
    B64Alphabet \o
    << "=", "!", "[", "]", "(", ")", ".", "..", " ", ",", "-",
       "http://", "https://", "data:", "HTTP://",
       "image/png", "image/jpeg", "image/jpg", "image/gif", "image/webp",
       "image/svg+xml", "image/bmp", ";base64",
       ".png", ".jpg", ".jpeg", ".gif", ".webp", ".svg", ".txt", ".PNG",
       "img_", "_", "t0", "t1", "t2", "t3", "t4", "t5", "t6",
       "sub", "up", "ph1", "ph2", "None", "__default__", "k1", "text/plain",
       "16", "64", "65", ".bmp", "IMAGE/GIF", "ph3" >>

\* The position of each lexeme in Lexemes.
LexCodes == [c \in {Lexemes[i] : i \in 1..Len(Lexemes)} |->
                CHOOSE i \in 1..Len(Lexemes) : Lexemes[i] = c]

\* The position of a lexeme in Lexemes.
LexCode(c) == LexCodes[c]

\* The digest is DigestBits wide; hexdigest() has DigestBits / 4 digits.
DigestModulus == 65536

\* hashlib.md5(data): an integer digest, folded over the lexemes of data.
RECURSIVE Md5Fold(_, _)
Md5Fold(data, h) ==
    IF data = <<>> THEN h
    ELSE Md5Fold(Tail(data), (h * 167 + LexCode(Head(data)) * 7919 + 13) % DigestModulus)

\* The hexadecimal digits.
HexDigits == << "0", "1", "2", "3", "4", "5", "6", "7",
                "8", "9", "a", "b", "c", "d", "e", "f" >>

\* hashlib.md5(data).hexdigest(): four hexadecimal digits, most significant first.
hexdigest(data) ==
    LET h == Md5Fold(data, 54321)
    IN  << HexDigits[((h \div 4096) % 16) + 1], HexDigits[((h \div 256) % 16) + 1],
           HexDigits[((h \div 16) % 16) + 1],   HexDigits[(h % 16) + 1] >>

\* The value of each base64 character.
B64Values == [c \in {B64Alphabet[i] : i \in 1..64} |->
                 (CHOOSE i \in 1..64 : B64Alphabet[i] = c) - 1]

\* The value of a base64 character, 64 for any other lexeme ("=" included).
B64Value(c) == IF c \in DOMAIN B64Values THEN B64Values[c] ELSE 64

\* binascii.a2b_base64(s) in its default, non-strict mode, from position i with
\* quad_pos characters of the current quad read, leftchar their pending bits and
\* pads the "=" seen in a row: characters outside the alphabet are skipped, "="
\* ends the data once the quad has two characters and is padded to four, and
\* data that ends inside a quad is an error.  [ok, bytes].
RECURSIVE a2b_base64(_, _, _, _, _, _)
a2b_base64(s, i, quad_pos, leftchar, pads, out) ==
    IF i > Len(s)
    THEN [ok |-> quad_pos = 0, bytes |-> out]
    ELSE IF s[i] = "="
    THEN IF quad_pos >= 2 /\ quad_pos + pads + 1 >= 4
         THEN [ok |-> TRUE, bytes |-> out]
         ELSE a2b_base64(s, i + 1, quad_pos, leftchar,
                         IF quad_pos >= 2 THEN pads + 1 ELSE pads, out)
    ELSE LET d == B64Value(s[i])
         IN  IF d >= 64 THEN a2b_base64(s, i + 1, quad_pos, leftchar, pads, out)
             ELSE IF quad_pos = 0
             THEN a2b_base64(s, i + 1, 1, d, 0, out)
             ELSE IF quad_pos = 1
             THEN a2b_base64(s, i + 1, 2, d % 16, 0,
                             Append(out, ToString(leftchar * 4 + d \div 16)))
             ELSE IF quad_pos = 2
             THEN a2b_base64(s, i + 1, 3, d % 4, 0,
                             Append(out, ToString(leftchar * 16 + d \div 4)))
             ELSE a2b_base64(s, i + 1, 0, 0, 0,
                             Append(out, ToString(leftchar * 64 + d)))

\* base64.b64decode(s): [ok, bytes]; ok is FALSE where Python raises binascii.Error.
b64decode(s) == a2b_base64(s, 1, 0, 0, 0, <<>>)

\* The bytes 0..255 as lexemes.
ByteValues == [c \in {ToString(n) : n \in 0..255} |->
                  CHOOSE n \in 0..255 : ToString(n) = c]

\* base64.b64encode(data).decode("utf-8").
RECURSIVE b64encode(_)
b64encode(data) ==
    IF data = <<>> THEN <<>>
    ELSE LET n == Len(data)
             b1 == ByteValues[data[1]]
             b2 == IF n >= 2 THEN ByteValues[data[2]] ELSE 0
             b3 == IF n >= 3 THEN ByteValues[data[3]] ELSE 0
             c1 == B64Alphabet[(b1 \div 4) + 1]
             c2 == B64Alphabet[((b1 % 4) * 16 + (b2 \div 16)) + 1]
             c3 == B64Alphabet[((b2 % 16) * 4 + (b3 \div 64)) + 1]
             c4 == B64Alphabet[(b3 % 64) + 1]
         IN  IF n = 1 THEN <<c1, c2, "=", "=">>
             ELSE IF n = 2 THEN <<c1, c2, c3, "=">>
             ELSE <<c1, c2, c3, c4>> \o b64encode(Slice(data, 4, n))

-----------------------------------------------------------------------------
(* The file system *)

\* The file-system root and the working directory always exist.
FixedDirs == {<<>>, Cwd}

\* Path lookup as the operating system does it: every component but the last
\* must be an existing directory; ".." goes to the parent.  [ok, at].
RECURSIVE WalkFrom(_, _)
WalkFrom(cur, parts) ==
    IF parts = <<>> THEN [ok |-> TRUE, at |-> cur]
    ELSE IF cur \notin dirs THEN [ok |-> FALSE, at |-> cur]
    ELSE IF Head(parts) = <<"..">>
         THEN WalkFrom(Slice(cur, 1, Len(cur) - 1), Tail(parts))
         ELSE WalkFrom(Append(cur, Head(parts)), Tail(parts))

\* os.stat(path): where the path leads, when every directory on the way exists.
Stat(p) == WalkFrom(IF p.abs THEN <<>> ELSE Cwd, p.parts)

\* path.exists().
exists(p) == LET st == Stat(p) IN st.ok /\ (st.at \in dirs \/ st.at \in DOMAIN fs)

\* path.is_file().
is_file(p) == LET st == Stat(p) IN st.ok /\ st.at \in DOMAIN fs

\* path.read_bytes() of an existing regular file.
read_bytes(p) == fs[Stat(p).at]

\* Whether path.read_bytes() of an existing regular file returns: it raises
\* PermissionError on a file this process may not read.
readable(p) == Stat(p).at \notin unreadable

\* Whether path.write_bytes() can open the file: the parent directory exists
\* and the path is not a directory.
can_write(p) ==
    LET st == Stat(p)
    IN  /\ p.parts # <<>>
        /\ PathName(p) # <<"..">>
        /\ st.ok
        /\ Slice(st.at, 1, Len(st.at) - 1) \in dirs
        /\ st.at \notin dirs

\* The files after path.write_bytes(data): the file is created or replaced.
write_bytes(files, at, data) ==
    [a \in DOMAIN files \cup {at} |-> IF a = at THEN data ELSE files[a]]

\* The files after path.unlink().
unlink(files, at) == [a \in DOMAIN files \ {at} |-> files[a]]

\* Whether abs path a lies strictly below abs path d.
Below(a, d) == Len(a) > Len(d) /\ Slice(a, 1, Len(d)) = d

\* The prefixes of an absolute path, itself included.
Ancestors(a) == {Slice(a, 1, n) : n \in 0..Len(a)}

\* The order in which a directory lists its entries: arbitrary, but the same
\* on every listing (here by a hash of the entry's name).
DirKey(a) == Md5Fold(a[Len(a)], 7)

\* A set of absolute paths as a sequence, in directory order.
RECURSIVE InDirOrder(_)
InDirOrder(S) ==
    IF S = {} THEN <<>>
    ELSE LET a == CHOOSE x \in S : \A y \in S : DirKey(x) <= DirKey(y)
         IN  <<a>> \o InDirOrder(S \ {a})

\* path.iterdir(): the entries directly in the directory at abs path d.
iterdir(d) ==
    InDirOrder({a \in DOMAIN fs \cup dirs : Len(a) = Len(d) + 1 /\ Below(a, d)})

-----------------------------------------------------------------------------
(* ImageHandler *)

\* self.storage_path: ImageHandler("s"), relative to the working directory.
storage_path == Path(<<"s">>)

\* The absolute path of the storage directory.
StorageDir == Resolve(storage_path)

\* strftime("%Y%m%d_%H%M%S") of the clock: one lexeme per second.
Timestamps == << "t0", "t1", "t2", "t3", "t4", "t5", "t6" >>

\* datetime.now().strftime(...).
strftime(clock) == <<Timestamps[clock + 1]>>

\* file_path.write_bytes(image_data); return str(file_path): [raised, ret, fs].
\* write_bytes raises when the parent directory is missing.
write_and_return(file_path, image_data) ==
    IF can_write(file_path)
    THEN [raised |-> FALSE, ret |-> PathStr(file_path),
          fs |-> write_bytes(fs, Stat(file_path).at, image_data)]
    ELSE [raised |-> TRUE, ret |-> None, fs |-> fs]

\* "Ensure correct extension": the extension is appended to a name without suffix.
with_extension(filename, extension) ==
    IF PathSuffix(Path(filename)) = <<>> THEN filename \o extension ELSE filename

\* f"img_{timestamp}_{content_hash}{extension}".
generated_filename(image_data, extension) ==
    <<"img_">> \o strftime(now) \o <<"_">> \o Slice(hexdigest(image_data), 1, 3)
    \o extension

\* ImageHandler.save_image(image_data, filename, extension):
\* [raised, ret, fs], ret the returned path string.
save_image(image_data, filename, extension) ==
    write_and_return(
        PathJoin(storage_path,
                 Path(with_extension(IF filename = None \/ filename = <<>>
                                     THEN generated_filename(image_data, extension)
                                     ELSE filename,
                                     extension))),
        image_data)

\* needle in header, for a one-lexeme needle: the lexemes whose text contains it.
InStr(needle, header) ==
    \E i \in 1..Len(header) :
        \/ header[i] = needle
        \/ needle = "image/svg" /\ header[i] = "image/svg+xml"

\* The inference of the extension that also knows image/bmp.
extension_of_with_bmp(header) ==
    IF InStr("image/jpeg", header) \/ InStr("image/jpg", header) THEN <<".jpg">>
    ELSE IF InStr("image/gif", header) THEN <<".gif">>
    ELSE IF InStr("image/webp", header) THEN <<".webp">>
    ELSE IF InStr("image/svg", header) THEN <<".svg">>
    ELSE IF InStr("image/bmp", header) THEN <<".bmp">>
    ELSE <<".png">>

\* The extension save_base64_image infers from the header of a data URI.
extension_of(header) ==
    IF InStr("image/jpeg", header) \/ InStr("image/jpg", header) THEN <<".jpg">>
    ELSE IF InStr("image/gif", header) THEN <<".gif">>
    ELSE IF InStr("image/webp", header) THEN <<".webp">>
    ELSE IF InStr("image/svg", header) THEN <<".svg">>
    ELSE <<".png">>

\* The end of save_base64_image: None when b64decode or save_image raised.
save_decoded(decoded, saved) ==
    IF ~decoded.ok \/ saved.raised THEN [ret |-> None, fs |-> fs]
    ELSE [ret |-> saved.ret, fs |-> saved.fs]

\* save_base64_image once the data URI is split at its first comma (0: no comma,
\* the split raises).
save_split(base64_data, filename, is_uri, comma) ==
    IF is_uri /\ comma = 0 THEN [ret |-> None, fs |-> fs]
    ELSE save_decoded(
             b64decode(Slice(base64_data, comma + 1, Len(base64_data))),
             save_image(b64decode(Slice(base64_data, comma + 1, Len(base64_data))).bytes,
                        filename,
                        IF is_uri THEN extension_of(Slice(base64_data, 1, comma - 1))
                        ELSE <<".png">>))

\* ImageHandler.save_base64_image(base64_data, filename): [ret, fs]; every
\* exception (no comma after "data:", binascii.Error, a failed write) gives None.
save_base64_image(base64_data, filename) ==
    save_split(base64_data, filename, StartsWith(base64_data, "data:"),
               IF StartsWith(base64_data, "data:") THEN Find(base64_data, ",", 1) ELSE 0)

\* get_image with the result tested for truth, as get_image_as_base64 tests it:
\* an empty file reads as None.
get_image_truthy(path) ==
    IF exists(Path(path)) /\ is_file(Path(path)) /\ read_bytes(Path(path)) # <<>>
    THEN read_bytes(Path(path))
    ELSE IF /\ ~exists(Path(path))
            /\ is_file(PathJoin(storage_path, Path(path)))
            /\ read_bytes(PathJoin(storage_path, Path(path))) # <<>>
    THEN read_bytes(PathJoin(storage_path, Path(path)))
    ELSE None

\* get_image that looks in the storage directory first.
get_image_store_first(path) ==
    LET given == Path(path)
        stored == PathJoin(storage_path, Path(path))
    IN  IF exists(stored)
        THEN IF is_file(stored) /\ readable(stored) THEN read_bytes(stored) ELSE None
        ELSE IF exists(given)
        THEN IF is_file(given) /\ readable(given) THEN read_bytes(given) ELSE None
        ELSE None

\* ImageHandler.get_image(path): the bytes, or None.  Reading a directory or
\* a file this process may not read raises, which the handler turns into None.
get_image(path) ==
    LET given == Path(path)
        stored == PathJoin(storage_path, Path(path))
    IN  IF exists(given)
        THEN IF is_file(given) /\ readable(given) THEN read_bytes(given) ELSE None
        ELSE IF exists(stored)
        THEN IF is_file(stored) /\ readable(stored) THEN read_bytes(stored) ELSE None
        ELSE None

\* mime_types.get(extension, "image/png") of get_image_as_base64.
mime_types_get(extension) ==
    CASE extension = <<".png">> -> <<"image/png">>
      [] extension \in {<<".jpg">>, <<".jpeg">>} -> <<"image/jpeg">>
      [] extension = <<".gif">> -> <<"image/gif">>
      [] extension = <<".webp">> -> <<"image/webp">>
      [] extension = <<".svg">> -> <<"image/svg+xml">>
      [] OTHER -> <<"image/png">>

\* ImageHandler.get_image_as_base64(path): the data URI, or None.  The bytes
\* are tested for truth, and empty bytes are false.
get_image_as_base64(path) ==
    LET image_data == get_image(path)
    IN  IF image_data # None /\ image_data # <<>>
        THEN <<"data:">> \o mime_types_get(Lower(PathSuffix(Path(path))))
                 \o <<";base64", ",">> \o b64encode(image_data)
        ELSE None

\* image_extensions of list_stored_images.
image_extensions == {<<".png">>, <<".jpg">>, <<".jpeg">>, <<".gif">>, <<".webp">>, <<".svg">>}

\* list_stored_images without the test of the suffix.
list_stored_images_any_suffix ==
    IF exists(storage_path)
    THEN LET entries == iterdir(StorageDir)
             files == SelectSeq(entries, LAMBDA a : a \in DOMAIN fs)
         IN  [n \in 1..Len(files) |->
                 PathStr(PathJoin(storage_path,
                                  [abs |-> FALSE, parts |-> <<files[n][Len(files[n])]>>]))]
    ELSE <<>>

\* ImageHandler.list_stored_images(): the path strings, in directory order.
list_stored_images ==
    IF exists(storage_path)
    THEN LET entries == iterdir(StorageDir)
             files == SelectSeq(entries, LAMBDA a :
                          /\ a \in DOMAIN fs
                          /\ Lower(PathSuffix([abs |-> TRUE, parts |-> a])) \in image_extensions)
         IN  [n \in 1..Len(files) |->
                 PathStr(PathJoin(storage_path,
                                  [abs |-> FALSE, parts |-> <<files[n][Len(files[n])]>>]))]
    ELSE <<>>

\* referenced_normalized of cleanup_orphaned_images.
referenced_normalized(referenced) ==
    {ResolveStr(Path(path)) : path \in referenced} \cup
    {PathName(Path(path)) : path \in referenced}

\* is_referenced without the filename fallback: resolved paths only.
is_referenced_by_path(stored_image, referenced, normalized) ==
    ResolveStr(Path(stored_image)) \in {ResolveStr(Path(path)) : path \in referenced}

\* is_referenced of cleanup_orphaned_images, for one stored image.
is_referenced(stored_image, referenced, normalized) ==
    \/ ResolveStr(Path(stored_image)) \in normalized
    \/ PathName(Path(stored_image)) \in normalized
    \/ stored_image \in referenced

\* The elements of a sequence, as a set.
Range(seq) == {seq[n] : n \in 1..Len(seq)}

\* unlink_each with the try around the whole loop: the first unlink that
\* raises ends it.
unlink_until_failure(paths, failing) ==
    LET stop == IF \E n \in 1..Len(paths) : paths[n] \in failing
                THEN CHOOSE n \in 1..Len(paths) :
                         /\ paths[n] \in failing
                         /\ \A m \in 1..(n - 1) : paths[m] \notin failing
                ELSE Len(paths) + 1
        gone == {Stat(Path(paths[n])).at : n \in 1..(stop - 1)}
    IN  [a \in DOMAIN fs \ gone |-> fs[a]]

\* The files left when unlink() is called on each listed path string in turn;
\* unlink raises on the paths in failing, and the loop goes on.
unlink_each(paths, failing) ==
    LET gone == {Stat(Path(path)).at : path \in Range(paths) \ failing}
    IN  [a \in DOMAIN fs \ gone |-> fs[a]]

\* find_orphaned that deletes whatever dry_run says.
find_orphaned_ignoring_dry_run(listed, referenced, normalized, dry_run, failing) ==
    LET orphaned == SelectSeq(listed, LAMBDA stored_image :
                        ~is_referenced(stored_image, referenced, normalized))
    IN  [listed |-> listed, ret |-> orphaned, fs |-> unlink_each(orphaned, failing)]

\* The loop of cleanup_orphaned_images over the listing: [listed, ret, fs].
find_orphaned(listed, referenced, normalized, dry_run, failing) ==
    LET orphaned == SelectSeq(listed, LAMBDA stored_image :
                        ~is_referenced(stored_image, referenced, normalized))
    IN  [listed |-> listed, ret |-> orphaned,
         fs |-> IF dry_run THEN fs ELSE unlink_each(orphaned, failing)]

\* cleanup_orphaned_images that only reports, whatever dry_run says.
cleanup_referenced_reporting(referenced, dry_run, failing) ==
    find_orphaned(list_stored_images, referenced, referenced_normalized(referenced),
                  TRUE, failing)

\* cleanup_orphaned_images once the references are extracted.
cleanup_referenced(referenced, dry_run, failing) ==
    find_orphaned(list_stored_images, referenced, referenced_normalized(referenced),
                  dry_run, failing)

\* ImageHandler.cleanup_orphaned_images(markdown_content, dry_run):
\* [listed, ret, fs]; unlink raises on the paths in failing.
cleanup_orphaned_images(markdown_content, dry_run, failing) ==
    cleanup_referenced(extract_image_paths(markdown_content), dry_run, failing)

\* The loop of delete_all_images: [listed, ret, fs].
delete_each(listed, failing) ==
    [listed |-> listed,
     ret |-> Cardinality(Range(listed) \ failing),
     fs |-> unlink_each(listed, failing)]

\* ImageHandler.delete_all_images(): [listed, ret, fs], ret the count of
\* unlinks that did not raise.
delete_all_images(failing) == delete_each(list_stored_images, failing)

\* delete_storage that reports failure when there is nothing to delete.
delete_storage_strict(failing) ==
    IF ~exists(storage_path) \/ failing THEN [ret |-> FALSE, fs |-> fs, dirs |-> dirs]
    ELSE [ret |-> TRUE,
          fs |-> [a \in {a \in DOMAIN fs : ~Below(a, StorageDir)} |-> fs[a]],
          dirs |-> {d \in dirs : d # StorageDir /\ ~Below(d, StorageDir)}]

\* ImageHandler.delete_storage(): [ret, fs, dirs]; rmtree removes the directory
\* and everything below it, or raises (failing) and leaves it as it is.
delete_storage(failing) ==
    IF ~exists(storage_path) THEN [ret |-> TRUE, fs |-> fs, dirs |-> dirs]
    ELSE IF failing THEN [ret |-> FALSE, fs |-> fs, dirs |-> dirs]
    ELSE [ret |-> TRUE,
          fs |-> [a \in {a \in DOMAIN fs : ~Below(a, StorageDir)} |-> fs[a]],
          dirs |-> {d \in dirs : d # StorageDir /\ ~Below(d, StorageDir)}]

\* path.mkdir(parents=True, exist_ok=True): the directories afterwards.
mkdir(p) == dirs \cup Ancestors(Resolve(p))

-----------------------------------------------------------------------------
(* streamlit_markdown/__init__.py *)

\* _save_image naming its file as save_image does, with the timestamp.
_save_image_timestamped(base64_data, upload_path, filename) ==
    LET comma == Find(base64_data, ",", 1)
        payload == IF comma # 0 THEN Slice(base64_data, comma + 1, Len(base64_data))
                   ELSE base64_data
        decoded == b64decode(payload)
        suffix == IF filename = None \/ filename = <<>> THEN <<".png">>
                  ELSE PathSuffix(Path(filename))
        ext == IF suffix = <<>> THEN <<".png">> ELSE suffix
        unique_filename == generated_filename(decoded.bytes, ext)
        upload_dir == Path(upload_path)
        file_path == PathJoin(upload_dir, Path(unique_filename))
        at == Append(Resolve(upload_dir), unique_filename)
    IN  IF ~decoded.ok THEN [ret |-> None, fs |-> fs, dirs |-> dirs]
        ELSE [ret |-> PathStr(file_path),
              fs |-> write_bytes(fs, at, decoded.bytes),
              dirs |-> mkdir(upload_dir)]

\* _save_image(base64_data, upload_path, filename) when the regular files are
\* files and the directories are directories: [ret, fs, dirs].
_save_image_to(files, directories, base64_data, upload_path, filename) ==
    LET comma == Find(base64_data, ",", 1)
        payload == IF comma # 0 THEN Slice(base64_data, comma + 1, Len(base64_data))
                   ELSE base64_data
        decoded == b64decode(payload)
        content_hash == Slice(hexdigest(decoded.bytes), 1, 2)
        suffix == IF filename = None \/ filename = <<>> THEN <<".png">>
                  ELSE PathSuffix(Path(filename))
        ext == IF suffix = <<>> THEN <<".png">> ELSE suffix
        unique_filename == <<"img_">> \o content_hash \o ext
        upload_dir == Path(upload_path)
        file_path == PathJoin(upload_dir, Path(unique_filename))
        at == Append(Resolve(upload_dir), unique_filename)
    IN  IF ~decoded.ok THEN [ret |-> None, fs |-> files, dirs |-> directories]
        ELSE [ret |-> PathStr(file_path),
              fs |-> write_bytes(files, at, decoded.bytes),
              dirs |-> directories \cup Ancestors(Resolve(upload_dir))]

\* _save_image(base64_data, upload_path, filename) in the current state.
_save_image(base64_data, upload_path, filename) ==
    _save_image_to(fs, dirs, base64_data, upload_path, filename)

\* mimetypes.guess_type(str(path))[0]: by the suffix, as written and then
\* lowercased; None when the suffix is unknown.
guess_type(path) ==
    LET suffix == Lower(PathSuffix(path))
    IN  CASE suffix = <<".png">> -> <<"image/png">>
          [] suffix \in {<<".jpg">>, <<".jpeg">>} -> <<"image/jpeg">>
          [] suffix = <<".gif">> -> <<"image/gif">>
          [] suffix = <<".webp">> -> <<"image/webp">>
          [] suffix = <<".svg">> -> <<"image/svg+xml">>
          [] suffix = <<".txt">> -> <<"text/plain">>
          [] OTHER -> None

\* replace_with_base64 that takes only data: and http:// targets as not local.
replace_with_base64_http_only(content, m) ==
    LET path == Path(m.path)
        mime_type == IF guess_type(path) = None THEN <<"image/png">>
                     ELSE guess_type(path)
    IN  IF StartsWith(m.path, "data:") \/ StartsWith(m.path, "http://")
        THEN Slice(content, m.start, m.end)
        ELSE IF exists(path) /\ is_file(path) /\ readable(path)
        THEN <<"!", "[">> \o m.alt \o <<"]", "(", "data:">> \o mime_type
                 \o <<";base64", ",">> \o b64encode(read_bytes(path)) \o <<")">>
        ELSE Slice(content, m.start, m.end)

\* replace_with_base64(match) for the match m in content.
replace_with_base64(content, m) ==
    LET path == Path(m.path)
        mime_type == IF guess_type(path) = None THEN <<"image/png">>
                     ELSE guess_type(path)
    IN  IF \/ StartsWith(m.path, "data:")
           \/ StartsWith(m.path, "http://")
           \/ StartsWith(m.path, "https://")
        THEN Slice(content, m.start, m.end)
        ELSE IF exists(path) /\ is_file(path) /\ readable(path)
        THEN <<"!", "[">> \o m.alt \o <<"]", "(", "data:">> \o mime_type
                 \o <<";base64", ",">> \o b64encode(read_bytes(path)) \o <<")">>
        ELSE Slice(content, m.start, m.end)

\* re.sub that gives up at the first reference it cannot replace, leaving the
\* rest of the content as it is.
RECURSIVE sub_from_until_failure(_, _)
sub_from_until_failure(content, i) ==
    IF i > Len(content) THEN <<>>
    ELSE LET m == MatchAt(content, i)
         IN  IF ~m.ok
             THEN <<content[i]>> \o sub_from_until_failure(content, i + 1)
             ELSE IF replace_with_base64(content, m) = Slice(content, m.start, m.end)
                     /\ ~StartsWithAny(m.path, RemotePrefixes)
             THEN Slice(content, i, Len(content))
             ELSE replace_with_base64(content, m)
                      \o sub_from_until_failure(content, m.end + 1)

\* re.sub(img_pattern, replace_with_base64, content) from position i.
RECURSIVE sub_from(_, _)
sub_from(content, i) ==
    IF i > Len(content) THEN <<>>
    ELSE LET m == MatchAt(content, i)
         IN  IF m.ok
             THEN replace_with_base64(content, m) \o sub_from(content, m.end + 1)
             ELSE <<content[i]>> \o sub_from(content, i + 1)

\* _convert_images_to_base64(content).
_convert_images_to_base64(content) ==
    IF content = <<>> THEN content ELSE sub_from(content, 1)

\* cache_key = key or "__default__".
cache_key_of(key) == IF key = None \/ key = <<>> THEN <<"__default__">> ELSE key

\* The conversion step of st_markdown that takes any entry of the key as a hit.
get_preview_any_entry(value, key) ==
    LET cache_key == cache_key_of(key)
        cached == cache[cache_key]
        preview_value == IF cached # None THEN cached[2]
                         ELSE IF value # <<>> THEN _convert_images_to_base64(value)
                         ELSE value
    IN  [preview_value |-> preview_value,
         converted |-> cached = None /\ value # <<>>,
         cache |-> IF cached # None THEN cache
                   ELSE [cache EXCEPT ![cache_key] = <<hexdigest(value), preview_value>>]]

\* The conversion step of st_markdown that keeps the hash of the entry it
\* overwrites.
get_preview_keeping_hash(value, key) ==
    LET cache_key == cache_key_of(key)
        value_hash == hexdigest(value)
        cached == cache[cache_key]
        hit == cached # None /\ cached[1] = value_hash
        preview_value == IF hit THEN cached[2]
                         ELSE IF value # <<>> THEN _convert_images_to_base64(value)
                         ELSE value
    IN  [preview_value |-> preview_value,
         converted |-> ~hit /\ value # <<>>,
         cache |-> IF hit THEN cache
                   ELSE [cache EXCEPT ![cache_key] =
                            <<IF cached # None THEN cached[1] ELSE value_hash,
                              preview_value>>]]

\* The conversion step of st_markdown that converts at every call and only
\* stores the result.
get_preview_reconverting(value, key) ==
    LET cache_key == cache_key_of(key)
        cached == cache[cache_key]
        hit == cached # None /\ cached[1] = hexdigest(value)
        preview_value == IF value # <<>> THEN _convert_images_to_base64(value)
                         ELSE value
    IN  [preview_value |-> preview_value,
         converted |-> ~hit /\ value # <<>>,
         cache |-> [cache EXCEPT ![cache_key] = <<hexdigest(value), preview_value>>]]

\* The conversion step of st_markdown: [preview_value, converted, cache], where
\* converted tells that _convert_images_to_base64 was called.
get_preview(value, key) ==
    LET cache_key == cache_key_of(key)
        value_hash == hexdigest(value)
        cached == cache[cache_key]
        hit == cached # None /\ cached[1] = value_hash
        preview_value == IF hit THEN cached[2]
                         ELSE IF value # <<>> THEN _convert_images_to_base64(value)
                         ELSE value
    IN  [preview_value |-> preview_value,
         converted |-> ~hit /\ value # <<>>,
         cache |-> IF hit THEN cache
                   ELSE [cache EXCEPT ![cache_key] = <<value_hash, preview_value>>]]

\* The defaultValue step of st_markdown that does not record what it sent.
get_send_default_unrecorded(value, key, preview_value) ==
    IF lastSent[cache_key_of(key)] = hexdigest(value)
    THEN [send_default |-> None, lastSent |-> lastSent]
    ELSE [send_default |-> preview_value, lastSent |-> lastSent]

\* The defaultValue step of st_markdown: [send_default, lastSent].
get_send_default(value, key, preview_value) ==
    LET cache_key == cache_key_of(key)
        value_hash == hexdigest(value)
    IN  IF lastSent[cache_key] = value_hash
        THEN [send_default |-> None, lastSent |-> lastSent]
        ELSE [send_default |-> preview_value,
              lastSent |-> [lastSent EXCEPT ![cache_key] = value_hash]]

\* str.replace(old, new) for a one-lexeme old.
RECURSIVE replace(_, _, _)
replace(s, old, new) ==
    IF s = <<>> THEN <<>>
    ELSE (IF Head(s) = old[1] THEN new ELSE <<Head(s)>>) \o replace(Tail(s), old, new)

\* The loop of st_markdown that gives up at the first save that fails.
RECURSIVE save_images_until_failure(_, _, _, _, _, _)
save_images_until_failure(images, i, image_upload_path, updated_content, files, directories) ==
    IF i > Len(images)
    THEN [content |-> updated_content, fs |-> files, dirs |-> directories]
    ELSE IF images[i].data = <<>> \/ images[i].placeholder = <<>>
    THEN save_images_until_failure(images, i + 1, image_upload_path, updated_content,
                                   files, directories)
    ELSE LET r == _save_image_to(files, directories, images[i].data,
                                 image_upload_path, images[i].filename)
         IN  IF r.ret = None
             THEN [content |-> updated_content, fs |-> files, dirs |-> directories]
             ELSE save_images_until_failure(images, i + 1, image_upload_path,
                      replace(updated_content, images[i].placeholder, r.ret),
                      r.fs, r.dirs)

\* The loop of st_markdown over component_value["images"] from image i on:
\* [content, fs, dirs].
RECURSIVE save_images(_, _, _, _, _, _)
save_images(images, i, image_upload_path, updated_content, files, directories) ==
    IF i > Len(images)
    THEN [content |-> updated_content, fs |-> files, dirs |-> directories]
    ELSE IF images[i].data = <<>> \/ images[i].placeholder = <<>>
    THEN save_images(images, i + 1, image_upload_path, updated_content,
                     files, directories)
    ELSE LET r == _save_image_to(files, directories, images[i].data,
                                 image_upload_path, images[i].filename)
         IN  save_images(images, i + 1, image_upload_path,
                         IF r.ret # None
                         THEN replace(updated_content, images[i].placeholder, r.ret)
                         ELSE updated_content,
                         r.fs, r.dirs)

\* The end of st_markdown, from the component's value on: [ret, fs, dirs].
handle_uploads(component_value, image_upload_path) ==
    IF image_upload_path # None /\ image_upload_path # <<>>
       /\ component_value.images # <<>>
    THEN LET r == save_images(component_value.images, 1, image_upload_path,
                              component_value.content, fs, dirs)
         IN  [ret |-> [content |-> r.content, images |-> <<>>],
              fs |-> r.fs, dirs |-> r.dirs]
    ELSE [ret |-> component_value, fs |-> fs, dirs |-> dirs]


-----------------------------------------------------------------------------
(* Bounds and inputs *)

\* The clock stops at MaxTime.
MaxTime == 1

\* At most MaxFiles regular files exist at a time.
MaxFiles == 2

\* "![alt](path)".
Image(alt, path) == <<"!", "[">> \o alt \o <<"]", "(">> \o path \o <<")">>

\* Byte payloads: empty, one byte 0x00.
Payloads == {<<>>, <<"0">>}

\* filename arguments of the save/load specification: none, without suffix,
\* in a subdirectory.
Filenames == {None, <<"b">>, <<"sub", "/", "a", ".png">>}

\* extension arguments of save_image.
Extensions == {<<".png">>, <<".jpg">>}

\* base64_data arguments: bare and data-URI, well formed and not.
B64Inputs ==
    { <<"A", "A", "=", "=">>,
      <<>>,
      <<"A">>,
      <<"A", "A", "=">>,
      <<"A", "A", "=", "=", "!">>,
      <<"A", "A", "=", "=", "A", "Q", "=", "=">>,
      <<"n", "o", "t", "-", "b", "a", "s", "e", "6", "4", "!", "!">>,
      <<"data:", "image/jpeg", ";base64", ",", "A", "A", "=", "=">>,
      <<"data:", "image/jpeg", ";base64", ",",
        "n", "o", "t", "-", "b", "a", "s", "e", "6", "4", "!", "!">>,
      <<"data:", "image/bmp", ";base64", ",", "A", "A", "=", "=", "-">>,
      <<"data:", "image/gif", ";base64">> }

\* base64_data arguments of _save_image.
UploadInputs ==
    { <<"data:", "image/png", ";base64", ",", "A", "A", "=", "=">>,
      <<"A", "A", "=", "=">>,
      <<"data:", "image/png", ";base64", ",", "A", "A", "=">>,
      <<"A", "A", "=", "=", "!">> }

\* filename arguments of the cleanup specification: an image, a name without
\* suffix, a file that is no image, a file in a subdirectory, none.
CollectFilenames ==
    { <<"a", ".png">>,
      <<"b">>,
      <<"n", ".txt">>,
      <<"sub", "/", "a", ".png">>,
      None }

\* markdown_content arguments of cleanup_orphaned_images: no reference; a bare
\* filename; the stored path string and a remote URL ending in a stored name;
\* an absolute path; a path with "." and ".."; another directory's file of the
\* same name and an unterminated reference.
Documents ==
    { <<>>,
      Image(<<"a">>, <<"a", ".png">>),
      Image(<<"a">>, <<"s", "/", "a", ".png">>)
          \o Image(<<"b">>, <<"https://", "b", ".png">>),
      Image(<<>>, <<"/", "w", "/", "s", "/", "b", ".png">>),
      Image(<<"a">>, <<".", "/", "s", "/", "..", "/", "s", "/", "b", ".jpg">>),
      Image(<<"a">>, <<"x", "/", "b", ".png">>)
          \o <<"!", "[", "a", "]", "(", "a", ".png">> }

\* path arguments of get_image, besides the path the last save returned.
LoadPaths == {<<"b", ".png">>, <<"s", "/", "b", ".png">>, <<"s">>}

-----------------------------------------------------------------------------
(* The image store: one action per ImageHandler call *)

\* A second passes.  It is no call: last keeps the call before it.
Tick ==
    /\ now < MaxTime
    /\ now' = now + 1
    /\ UNCHANGED <<fs, dirs, caches, frame, last>>

\* ImageHandler(base_path): the constructor makes the storage directory.
ImageHandlerInit ==
    /\ dirs' = mkdir(storage_path)
    /\ last' = [op |-> "__init__"]
    /\ UNCHANGED <<fs, now, caches, frame>>

\* handler.save_image(image_data, filename, extension).
SaveImage(image_data, filename, extension) ==
    \E r \in {save_image(image_data, filename, extension)} :
        /\ Cardinality(DOMAIN r.fs) <= MaxFiles
        /\ fs' = r.fs
        /\ last' = [op |-> "save_image", image_data |-> image_data,
                    filename |-> filename, extension |-> extension,
                    at |-> now, raised |-> r.raised, ret |-> r.ret,
                    created |-> DOMAIN r.fs # DOMAIN fs,
                    prev |-> IF /\ last.op = "save_image"
                                /\ ~last.raised
                                /\ last.image_data = image_data
                                /\ last.filename = filename
                                /\ last.extension = extension
                             THEN [ret |-> last.ret, at |-> last.at]
                             ELSE [ret |-> None, at |-> now]]
        /\ UNCHANGED <<dirs, now, caches, frame>>

\* handler.save_base64_image(base64_data, filename).
SaveBase64Image(base64_data, filename) ==
    \E r \in {save_base64_image(base64_data, filename)} :
        /\ Cardinality(DOMAIN r.fs) <= MaxFiles
        /\ fs' = r.fs
        /\ last' = [op |-> "save_base64_image", base64_data |-> base64_data,
                    filename |-> filename, ret |-> r.ret, changed |-> r.fs # fs]
        /\ UNCHANGED <<dirs, now, caches, frame>>

\* _save_image(base64_data, upload_path, filename), as st_markdown calls it for
\* one pasted image.
SaveUpload(base64_data, upload_path, filename) ==
    \E r \in {_save_image(base64_data, upload_path, filename)} :
        /\ Cardinality(DOMAIN r.fs) <= MaxFiles
        /\ fs' = r.fs
        /\ dirs' = r.dirs
        /\ last' = [op |-> "_save_image", base64_data |-> base64_data,
                    filename |-> filename, at |-> now, ret |-> r.ret,
                    changed |-> r.fs # fs,
                    created |-> DOMAIN r.fs # DOMAIN fs,
                    prev |-> IF /\ last.op = "_save_image"
                                /\ last.ret # None
                                /\ last.base64_data = base64_data
                                /\ last.filename = filename
                             THEN [ret |-> last.ret, at |-> last.at]
                             ELSE [ret |-> None, at |-> now]]
        /\ UNCHANGED <<now, caches, frame>>

\* The path and the bytes of the last save_image call that returned.
LastSaved ==
    IF last.op = "save_image" /\ ~last.raised
    THEN {[path |-> last.ret, image_data |-> last.image_data]}
    ELSE {}

\* handler.get_image(path); saved is the payload when path is what the
\* previous call, a save_image, returned.
GetImage(path) ==
    /\ last' = [op |-> "get_image", path |-> path, ret |-> get_image(path),
                saved |-> IF \E sv \in LastSaved : sv.path = path
                          THEN last.image_data ELSE None]
    /\ UNCHANGED <<fs, dirs, now, caches, frame>>

\* handler.list_stored_images().
ListStoredImages ==
    /\ last' = [op |-> "list_stored_images", ret |-> list_stored_images]
    /\ UNCHANGED <<fs, dirs, now, caches, frame>>

\* handler.cleanup_orphaned_images(markdown_content, dry_run); unlink raises on
\* the files in failing.  repeat tells that the call before was a cleanup of
\* the same text that deleted and in which no unlink raised.
CleanupOrphanedImages(markdown_content, dry_run, failing) ==
    /\ dry_run => failing = {}
    /\ \E r \in {cleanup_orphaned_images(markdown_content, dry_run, failing)} :
        /\ fs' = r.fs
        /\ last' = [op |-> "cleanup_orphaned_images",
                    markdown_content |-> markdown_content, dry_run |-> dry_run,
                    failing |-> failing, listed |-> r.listed,
                    before |-> fs, ret |-> r.ret,
                    repeat |-> /\ last.op = "cleanup_orphaned_images"
                               /\ ~last.dry_run
                               /\ last.failing = {}
                               /\ last.markdown_content = markdown_content]
        /\ UNCHANGED <<dirs, now, caches, frame>>

\* handler.delete_all_images(); unlink raises on the files in failing.  retry
\* tells that the call before was a delete_all_images that removed every file
\* it listed.
DeleteAllImages(failing) ==
    \E r \in {delete_all_images(failing)} :
        /\ fs' = r.fs
        /\ last' = [op |-> "delete_all_images", failing |-> failing,
                    listed |-> r.listed, before |-> fs, ret |-> r.ret,
                    retry |-> /\ last.op = "delete_all_images"
                              /\ last.ret = Len(last.listed)]
        /\ UNCHANGED <<dirs, now, caches, frame>>

\* handler.delete_storage(); rmtree raises when failing.  absent tells that
\* the storage directory did not exist at the call.
DeleteStorage(failing) ==
    \E r \in {delete_storage(failing)} :
        /\ fs' = r.fs
        /\ dirs' = r.dirs
        /\ last' = [op |-> "delete_storage", failing |-> failing, ret |-> r.ret,
                    absent |-> ~exists(storage_path),
                    changed |-> r.fs # fs \/ r.dirs # dirs]
        /\ UNCHANGED <<now, caches, frame>>

\* Render-cache keys: key or "__default__".
CacheKeys == {<<"__default__">>, <<"k1">>}

\* The directories once ImageHandler("s") is constructed.
StoreDirs == FixedDirs \cup Ancestors(StorageDir)

\* The state after ImageHandler("s") is constructed in an empty working directory.
Init ==
    /\ fs = <<>>
    /\ dirs = StoreDirs
    /\ now = 0
    /\ cache = [k \in CacheKeys |-> None]
    /\ lastSent = [k \in CacheKeys |-> None]
    /\ lastValue = [k \in CacheKeys |-> None]
    /\ lastPreview = [k \in CacheKeys |-> None]
    /\ document = <<>>
    /\ unreadable = {}
    /\ callers = <<>>
    /\ last = [op |-> "start"]

\* Saving and loading.
Next ==
    \/ Tick
    \/ ImageHandlerInit
    \/ \E image_data \in Payloads, filename \in Filenames, extension \in Extensions :
           SaveImage(image_data, filename, extension)
    \/ \E base64_data \in B64Inputs : SaveBase64Image(base64_data, None)
    \/ \E base64_data \in UploadInputs, filename \in {None, <<"b", ".jpg">>} :
           SaveUpload(base64_data, <<"s">>, filename)
    \/ \E path \in LoadPaths \cup {sv.path : sv \in LastSaved} : GetImage(path)
    \/ \E failing \in BOOLEAN : DeleteStorage(failing)

Spec == Init /\ [][Next]_vars

-----------------------------------------------------------------------------
(* The store and its cleanup *)

\* The state after ImageHandler("s") is constructed; s/sub may exist already.
InitCollect ==
    /\ fs = <<>>
    /\ dirs \in {StoreDirs, StoreDirs \cup {Append(StorageDir, <<"sub">>)}}
    /\ now = 0
    /\ cache = [k \in CacheKeys |-> None]
    /\ lastSent = [k \in CacheKeys |-> None]
    /\ lastValue = [k \in CacheKeys |-> None]
    /\ lastPreview = [k \in CacheKeys |-> None]
    /\ document = <<>>
    /\ unreadable = {}
    /\ callers = <<>>
    /\ last = [op |-> "start"]

\* Saving, listing and deleting.
NextCollect ==
    \/ \E filename \in CollectFilenames, extension \in Extensions :
           SaveImage(<<"0">>, filename, extension)
    \/ ListStoredImages
    \/ \E failing \in SUBSET Range(list_stored_images) :
           \/ \E markdown_content \in Documents, dry_run \in BOOLEAN :
                  CleanupOrphanedImages(markdown_content, dry_run, failing)
           \/ DeleteAllImages(failing)

SpecCollect == InitCollect /\ [][NextCollect]_vars

-----------------------------------------------------------------------------
(* The render cache: st_markdown *)

\* value arguments of st_markdown: empty; a stored image; text, a stored image
\* and a remote one; the image a paste stores.
RenderValues ==
    { <<>>,
      Image(<<"a">>, <<"s", "/", "a", ".png">>),
      <<"x">> \o Image(<<"a">>, <<"s", "/", "a", ".png">>)
          \o Image(<<"b">>, <<"https://", "b", ".png">>),
      Image(<<>>, <<"s", "/", "img_", "d", "3", ".png">>) }

\* key arguments of st_markdown.
RenderKeys == {None, <<"k1">>}

\* What the component returns when the user pasted an image: the text with a
\* placeholder, and the upload request.
Pasted ==
    [content |-> <<"x">> \o Image(<<"p">>, <<"ph1">>),
     images |-> << [data |-> <<"data:", "image/png", ";base64", ",", "A", "A", "=", "=">>,
                    placeholder |-> <<"ph1">>,
                    filename |-> <<"p", ".png">>] >>]

\* What the component returns when the user pasted four images: one whose
\* payload is not base64, one that is fine, one without payload and one
\* without placeholder.
PastedSeveral ==
    [content |-> Image(<<"p">>, <<"ph1">>) \o <<"x">> \o Image(<<"q">>, <<"ph2">>)
                     \o Image(<<"r">>, <<"ph3">>),
     images |-> << [data |-> <<"data:", "image/png", ";base64", ",", "A", "A", "=">>,
                    placeholder |-> <<"ph1">>,
                    filename |-> <<"p", ".png">>],
                   [data |-> <<"data:", "image/png", ";base64", ",", "A", "A", "=", "=">>,
                    placeholder |-> <<"ph2">>,
                    filename |-> <<"q", ".png">>],
                   [data |-> <<>>,
                    placeholder |-> <<"ph3">>,
                    filename |-> <<"r", ".png">>],
                   [data |-> <<"data:", "image/png", ";base64", ",", "A", "A", "=", "=">>,
                    placeholder |-> <<>>,
                    filename |-> <<"t", ".png">>] >>]

\* What the user did, if anything, and the image_upload_path argument: nothing,
\* or a paste without and with an upload path.
Interactions ==
    { [edits |-> <<>>, image_upload_path |-> None],
      [edits |-> <<Pasted>>, image_upload_path |-> None],
      [edits |-> <<Pasted>>, image_upload_path |-> <<"s">>],
      [edits |-> <<PastedSeveral>>, image_upload_path |-> <<"s">>] }

\* st_markdown(value, key=key, image_upload_path=image_upload_path), the
\* component returning the value of the user's edit, or its default when there
\* is none.
StMarkdown(value, key, image_upload_path, edits) ==
    \E p \in {get_preview(value, key)} :
    \E d \in {get_send_default(value, key, p.preview_value)} :
    \E component_value \in {IF edits = <<>>
                            THEN [content |-> p.preview_value, images |-> <<>>]
                            ELSE edits[1]} :
    \E u \in {handle_uploads(component_value, image_upload_path)} :
        /\ Cardinality(DOMAIN u.fs) <= MaxFiles
        /\ cache' = p.cache
        /\ lastSent' = d.lastSent
        /\ lastValue' = [lastValue EXCEPT ![cache_key_of(key)] = value]
        /\ lastPreview' = [lastPreview EXCEPT ![cache_key_of(key)] = p.preview_value]
        /\ fs' = u.fs
        /\ dirs' = u.dirs
        /\ last' = [op |-> "st_markdown", value |-> value, key |-> key,
                    cache_key |-> cache_key_of(key),
                    prev_value |-> lastValue[cache_key_of(key)],
                    prev_preview |-> lastPreview[cache_key_of(key)],
                    prev_cached |-> cache[cache_key_of(key)],
                    inlined |-> _convert_images_to_base64(value),
                    converted |-> p.converted,
                    preview_value |-> p.preview_value,
                    send_default |-> d.send_default,
                    component_value |-> component_value,
                    image_upload_path |-> image_upload_path,
                    ret |-> u.ret]
        /\ UNCHANGED <<now, frame>>

\* Rendering, while images come and go.
NextCache ==
    \/ \E value \in RenderValues, key \in RenderKeys, x \in Interactions :
           StMarkdown(value, key, x.image_upload_path, x.edits)
    \/ SaveImage(<<"0">>, <<"a", ".png">>, <<".png">>)
    \/ DeleteAllImages({})

SpecCache == Init /\ [][NextCache]_vars

-----------------------------------------------------------------------------
(* The render cache over a changing store *)

\* value arguments of st_markdown: one stored image; text and another one.
StaleValues ==
    { Image(<<"a">>, <<"s", "/", "a", ".png">>),
      <<"x">> \o Image(<<"b">>, <<"s", "/", "b", ".png">>) }

\* The files the store operations write: the two images the texts name.
StaleFilenames == {<<"a", ".png">>, <<"b", ".png">>}

\* Rendering without uploads, while images are saved, overwritten with other
\* bytes, deleted, and collected as orphans of one of the texts.
NextStale ==
    \/ \E value \in StaleValues, key \in RenderKeys : StMarkdown(value, key, None, <<>>)
    \/ \E image_data \in {<<"0">>, <<"1">>}, filename \in StaleFilenames :
           SaveImage(image_data, filename, <<".png">>)
    \/ DeleteAllImages({})
    \/ \E markdown_content \in StaleValues :
           CleanupOrphanedImages(markdown_content, FALSE, {})

SpecStale == Init /\ [][NextStale]_vars

-----------------------------------------------------------------------------
(* Reference extraction *)

\* A markup text has at most MaxFrags fragments.
MaxFrags == 3

\* Fragments of markup: local, remote and data-URI images; prefixes that are
\* not at the start or not in lower case; an empty target; an unterminated
\* image; a link; loose punctuation and text.
Frags ==
    { Image(<<"a">>, <<"a", ".png">>),
      Image(<<"b">>, <<"http://", "x">>),
      Image(<<>>, <<"https://", "x">>),
      Image(<<"a">>, <<"data:", "image/png", ";base64", ",", "A", "A", "=", "=">>),
      Image(<<"a">>, <<"HTTP://", "x">>),
      Image(<<"a">>, <<" ", "http://", "x">>),
      <<"!", "[", "a", "]", "(", ")">>,
      <<"!", "[", "a", "]", "(", "b", ".png">>,
      <<"[", "a", "]", "(", "a", ".png", ")">>,
      <<"!", "[">>,
      <<"]", "(">>,
      <<")">>,
      <<"!">>,
      <<"x">> }

\* The markup texts: up to MaxFrags fragments in a row.
Texts == {Concat(fr) : fr \in UNION {[1..n -> Frags] : n \in 0..MaxFrags}}

\* handler.extract_image_paths(markdown_content).
ExtractImagePaths(markdown_content) ==
    /\ last' = [op |-> "extract_image_paths",
                markdown_content |-> markdown_content,
                ret |-> extract_image_paths(markdown_content)]
    /\ UNCHANGED <<fs, dirs, now, caches, frame>>

\* The application holds any of the texts.
InitExtract ==
    /\ fs = <<>>
    /\ dirs = StoreDirs
    /\ now = 0
    /\ cache = [k \in CacheKeys |-> None]
    /\ lastSent = [k \in CacheKeys |-> None]
    /\ lastValue = [k \in CacheKeys |-> None]
    /\ lastPreview = [k \in CacheKeys |-> None]
    /\ document \in Texts
    /\ unreadable = {}
    /\ callers = <<>>
    /\ last = [op |-> "start"]

\* Extraction from the text.
NextExtract == ExtractImagePaths(document)

SpecExtract == InitExtract /\ [][NextExtract]_vars

-----------------------------------------------------------------------------
(* Inline conversion *)

\* A markup text to convert has at most MaxRefs fragments.
MaxRefs == 2

\* The file that the target "https://x" names when it is read as a path.
UrlNamedFile == Append(Cwd, <<"https://", "x">>)

\* The regular files that may exist when a text is converted, with their bytes.
InlineFiles ==
    (Append(StorageDir, <<"a", ".png">>) :> <<"0">>)
    @@ (Append(StorageDir, <<"b", ".jpg">>) :> <<"1", "2">>)
    @@ (UrlNamedFile :> <<"3">>)

\* The directories then: the store, and in it a directory named like an image.
InlineDirs == StoreDirs \cup {Append(StorageDir, <<"d", ".png">>)}

\* Fragments of the texts to convert: stored images, a missing one, a
\* directory, remote and data-URI images, text.
InlineFrags ==
    { Image(<<"a">>, <<"s", "/", "a", ".png">>),
      Image(<<"b">>, <<"s", "/", "b", ".jpg">>),
      Image(<<"c">>, <<"s", "/", "c", ".png">>),
      Image(<<"d">>, <<"s", "/", "d", ".png">>),
      Image(<<"r">>, <<"https://", "x">>),
      Image(<<"h">>, <<"http://", "x">>),
      Image(<<>>, <<"data:", "image/png", ";base64", ",", "A", "A", "=", "=">>),
      <<"x">> }

\* The texts to convert: up to MaxRefs fragments in a row.
InlineTexts == {Concat(fr) : fr \in UNION {[1..n -> InlineFrags] : n \in 0..MaxRefs}}

\* _convert_images_to_base64(content).
ConvertImages(content) ==
    /\ last' = [op |-> "_convert_images_to_base64", content |-> content,
                ret |-> _convert_images_to_base64(content), before |-> fs]
    /\ UNCHANGED <<fs, dirs, now, caches, frame>>

\* The application holds any of the texts; any of the files exist, and any of
\* them may be unreadable.
InitInline ==
    /\ \E F \in SUBSET DOMAIN InlineFiles : fs = [a \in F |-> InlineFiles[a]]
    /\ dirs = InlineDirs
    /\ now = 0
    /\ cache = [k \in CacheKeys |-> None]
    /\ lastSent = [k \in CacheKeys |-> None]
    /\ lastValue = [k \in CacheKeys |-> None]
    /\ lastPreview = [k \in CacheKeys |-> None]
    /\ document \in InlineTexts
    /\ unreadable \in SUBSET DOMAIN fs
    /\ callers = <<>>
    /\ last = [op |-> "start"]

\* Conversion of the text.
NextInline == ConvertImages(document)

SpecInline == InitInline /\ [][NextInline]_vars

-----------------------------------------------------------------------------
(* Listing and bulk deletion *)

\* filename arguments of the deletion specification: images with a lower-case
\* and an upper-case suffix, a file that is no image, a file in a subdirectory.
DeleteFilenames ==
    { <<"a", ".png">>,
      <<"b", ".PNG">>,
      <<"n", ".txt">>,
      <<"sub", "/", "a", ".png">> }

\* The store holds a subdirectory and a directory named like an image.
InitDelete ==
    /\ fs = <<>>
    /\ dirs = StoreDirs \cup {Append(StorageDir, <<"sub">>),
                              Append(StorageDir, <<"d", ".png">>)}
    /\ now = 0
    /\ cache = [k \in CacheKeys |-> None]
    /\ lastSent = [k \in CacheKeys |-> None]
    /\ lastValue = [k \in CacheKeys |-> None]
    /\ lastPreview = [k \in CacheKeys |-> None]
    /\ document = <<>>
    /\ unreadable = {}
    /\ callers = <<>>
    /\ last = [op |-> "start"]

\* Saving, listing, deleting the images and deleting the store.
NextDelete ==
    \/ ImageHandlerInit
    \/ \E filename \in DeleteFilenames : SaveImage(<<"0">>, filename, <<".png">>)
    \/ ListStoredImages
    \/ \E failing \in SUBSET Range(list_stored_images) : DeleteAllImages(failing)
    \/ \E failing \in BOOLEAN : DeleteStorage(failing)

SpecDelete == InitDelete /\ [][NextDelete]_vars

-----------------------------------------------------------------------------
(* Loading *)

\* Byte payloads of the loading specification: empty, and two that differ.
LoadPayloads == {<<>>, <<"0">>, <<"1">>}

\* filename arguments of the loading specification: a file of the store, a
\* file of that name in the working directory, a file that is no image.
LoadFilenames ==
    { <<"a", ".png">>,
      <<"..", "/", "a", ".png">>,
      <<"n", ".txt">> }

\* path arguments of the loading specification: a name in both places or in
\* the store only, the stored path, an absolute path, a path that is nowhere,
\* the store's directory.
LoadArguments ==
    { <<"a", ".png">>,
      <<"n", ".txt">>,
      <<"s", "/", "a", ".png">>,
      <<"/", "w", "/", "s", "/", "a", ".png">>,
      <<"c", ".png">>,
      <<"s">> }

\* handler.get_image_as_base64(path); loaded is what get_image(path) gives.
GetImageAsBase64(path) ==
    /\ last' = [op |-> "get_image_as_base64", path |-> path,
                ret |-> get_image_as_base64(path), loaded |-> get_image(path)]
    /\ UNCHANGED <<fs, dirs, now, caches, frame>>

\* Saving in and next to the store, and loading.
NextLoad ==
    \/ \E image_data \in LoadPayloads, filename \in LoadFilenames :
           SaveImage(image_data, filename, <<".png">>)
    \/ \E path \in LoadArguments : GetImage(path)
    \/ \E path \in LoadArguments : GetImageAsBase64(path)

SpecLoad == Init /\ [][NextLoad]_vars

-----------------------------------------------------------------------------
(* Concurrent render steps: st_markdown called from several script threads *)

\* The script threads that call st_markdown; the module's two dictionaries
\* are shared by all of them, and the code takes no lock.
Callers == {1, 2}

\* value arguments of the concurrent calls: a stored image, and text.
ConcurrentValues ==
    { Image(<<"a">>, <<"s", "/", "a", ".png">>),
      <<"x">> }

\* A caller that is not inside st_markdown.
Idle ==
    [pc |-> "idle", value |-> None, key |-> None, changed |-> FALSE,
     preview_value |-> None, send_default |-> None, suppressed |-> FALSE]

\* Lines 143-144: the caller enters the render step with its arguments;
\* changed tells that the text differs from the one last sent for the key.
Call(c, value, key) ==
    /\ callers[c].pc = "idle"
    /\ callers' = [callers EXCEPT ![c] =
                      [Idle EXCEPT !.pc = "cached", !.value = value, !.key = key,
                                   !.changed = lastSent[cache_key_of(key)]
                                                  # hexdigest(value)]]
    /\ last' = [op |-> "call", caller |-> c]
    /\ UNCHANGED <<fs, dirs, now, caches, document, unreadable>>

\* Lines 146-148: cached = _image_conversion_cache.get(cache_key) and the
\* comparison of its hash; on a hit the cached text is taken.
CacheLookup(c) ==
    LET me == callers[c]
        cached == cache[cache_key_of(me.key)]
        hit == cached # None /\ cached[1] = hexdigest(me.value)
    IN  /\ me.pc = "cached"
        /\ callers' = [callers EXCEPT ![c] =
                          IF hit
                          THEN [me EXCEPT !.pc = "last_hash", !.preview_value = cached[2]]
                          ELSE [me EXCEPT !.pc = "convert"]]
        /\ last' = [op |-> "cache_lookup", caller |-> c]
        /\ UNCHANGED <<fs, dirs, now, caches, document, unreadable>>

\* Lines 150-151: the conversion, and the write of the key's cache entry.
CacheStore(c) ==
    LET me == callers[c]
        preview_value == IF me.value # <<>> THEN _convert_images_to_base64(me.value)
                         ELSE me.value
    IN  /\ me.pc = "convert"
        /\ cache' = [cache EXCEPT ![cache_key_of(me.key)] =
                        <<hexdigest(me.value), preview_value>>]
        /\ callers' = [callers EXCEPT ![c] =
                          [me EXCEPT !.pc = "last_hash", !.preview_value = preview_value]]
        /\ last' = [op |-> "cache_store", caller |-> c]
        /\ UNCHANGED <<fs, dirs, now, lastSent, lastValue, lastPreview, document,
                       unreadable>>

\* Lines 154-157: last_hash = _last_sent_default.get(cache_key) and its
\* comparison; on equality send_default is None and the step is over.
SentLookup(c) ==
    LET me == callers[c]
        last_hash == lastSent[cache_key_of(me.key)]
    IN  /\ me.pc = "last_hash"
        /\ callers' = [callers EXCEPT ![c] =
                          IF last_hash = hexdigest(me.value)
                          THEN [me EXCEPT !.pc = "done", !.suppressed = TRUE]
                          ELSE [me EXCEPT !.pc = "send"]]
        /\ last' = [op |-> "sent_lookup", caller |-> c]
        /\ UNCHANGED <<fs, dirs, now, caches, document, unreadable>>

\* Lines 159-160: send_default = preview_value, and the write of the key's
\* last sent hash.
SentStore(c) ==
    LET me == callers[c]
    IN  /\ me.pc = "send"
        /\ lastSent' = [lastSent EXCEPT ![cache_key_of(me.key)] = hexdigest(me.value)]
        /\ callers' = [callers EXCEPT ![c] =
                          [me EXCEPT !.pc = "done", !.send_default = me.preview_value]]
        /\ last' = [op |-> "sent_store", caller |-> c]
        /\ UNCHANGED <<fs, dirs, now, cache, lastValue, lastPreview, document,
                       unreadable>>

\* The store has one image; the caches are empty, or left by an earlier render
\* of a text under every key; no caller is inside st_markdown.
InitConcurrent ==
    /\ fs = (Append(StorageDir, <<"a", ".png">>) :> <<"0">>)
    /\ dirs = StoreDirs
    /\ now = 0
    /\ unreadable = {}
    /\ \E earlier \in {None} \cup ConcurrentValues :
           /\ cache = [k \in CacheKeys |->
                          IF earlier = None THEN None
                          ELSE <<hexdigest(earlier), _convert_images_to_base64(earlier)>>]
           /\ lastSent = [k \in CacheKeys |->
                             IF earlier = None THEN None ELSE hexdigest(earlier)]
           /\ lastValue = [k \in CacheKeys |-> earlier]
           /\ lastPreview = [k \in CacheKeys |->
                                IF earlier = None THEN None
                                ELSE _convert_images_to_base64(earlier)]
    /\ document = <<>>
    /\ callers = [c \in Callers |-> Idle]
    /\ last = [op |-> "start"]

\* Each caller makes one call; the threads' steps interleave freely.
NextConcurrent ==
    \/ \E c \in Callers, value \in ConcurrentValues, key \in RenderKeys :
           Call(c, value, key)
    \/ \E c \in Callers : CacheLookup(c)
    \/ \E c \in Callers : CacheStore(c)
    \/ \E c \in Callers : SentLookup(c)
    \/ \E c \in Callers : SentStore(c)

SpecConcurrent == InitConcurrent /\ [][NextConcurrent]_vars

-----------------------------------------------------------------------------
(* The directory listing as the index of encoded saves *)

\* "data:<mime>;base64,AA==".
DataUri(mime) == <<"data:", mime, ";base64", ",", "A", "A", "=", "=">>

\* base64_data arguments: a data URI of every image type the inference knows,
\* of one it does not know and of one written in capitals; bare base64; a
\* payload that is not base64.
IndexInputs ==
    { DataUri(mime) : mime \in {"image/png", "image/jpeg", "image/jpg", "image/gif",
                                "image/webp", "image/svg+xml", "image/bmp",
                                "IMAGE/GIF"} }
    \cup { <<"A", "A", "=", "=">>,
           <<"data:", "image/png", ";base64", ",", "A", "A", "=">> }

\* Saving encoded images without a filename as time passes, listing, deleting
\* and collecting, and deleting and making the store again.
NextIndex ==
    \/ Tick
    \/ ImageHandlerInit
    \/ \E base64_data \in IndexInputs : SaveBase64Image(base64_data, None)
    \/ ListStoredImages
    \/ DeleteAllImages({})
    \/ \E dry_run \in BOOLEAN : CleanupOrphanedImages(<<>>, dry_run, {})
    \/ \E failing \in BOOLEAN : DeleteStorage(failing)

SpecIndex == Init /\ [][NextIndex]_vars

-----------------------------------------------------------------------------
(* Properties of saving and loading *)

\* C5: load(save(P)) = P.  When get_image is given the path that the call
\* before it, a save_image, returned, it returns exactly the bytes saved, the
\* empty payload included.
C5_RoundTrip ==
    (last.op = "get_image" /\ last.saved # None) => last.ret = last.saved

\* C5 witness: a save of the empty payload was loaded back.
C5_Witness ==
    last.op = "get_image" /\ last.saved = <<>> /\ last.ret = <<>>

\* C6 as stated: two saves in a row of the same bytes with no filename and the
\* same extension return the same path and leave one file, whatever time
\* passed between them.
C6_IdempotentWhateverTime ==
    (last.op = "save_image" /\ ~last.raised /\ last.filename = None
        /\ last.prev.ret # None)
    => (last.ret = last.prev.ret /\ ~last.created)

\* C6 amended: the second of two such saves returns the same path and creates
\* no file when both fall in the same second of the clock; two _save_image
\* calls in a row with the same data and filename return the same path and
\* create no second file whatever time passed.
C6_IdempotentSameSecond ==
    /\ (last.op = "save_image" /\ ~last.raised /\ last.filename = None
            /\ last.prev.ret # None /\ last.prev.at = last.at)
       => (last.ret = last.prev.ret /\ ~last.created)
    /\ (last.op = "_save_image" /\ last.ret # None /\ last.prev.ret # None)
       => (last.ret = last.prev.ret /\ ~last.created)

\* C6 witness: the same bytes were saved twice through _save_image, a second
\* apart, under one name.
C6_Witness ==
    /\ last.op = "_save_image" /\ last.ret # None
    /\ last.prev.ret = last.ret /\ last.prev.at # last.at

\* The base64 text of a save argument: what follows the first comma of a data
\* URI (for _save_image, of any text with a comma).
B64Part(base64_data, always_split) ==
    IF (always_split \/ StartsWith(base64_data, "data:")) /\ Find(base64_data, ",", 1) # 0
    THEN Slice(base64_data, Find(base64_data, ",", 1) + 1, Len(base64_data))
    ELSE base64_data

\* Well-formed base64 (RFC 4648): whole quads of alphabet characters, the last
\* quad ending in at most two "=".
WellFormedB64(s) ==
    /\ Len(s) % 4 = 0
    /\ \A i \in 1..Len(s) :
        \/ B64Value(s[i]) < 64
        \/ s[i] = "=" /\ i >= Len(s) - 1 /\ (i = Len(s) \/ s[i + 1] = "=")

\* A malformed save argument: a data URI with no comma, or base64 text that is
\* not well formed.
Malformed(base64_data, always_split) ==
    \/ StartsWith(base64_data, "data:") /\ Find(base64_data, ",", 1) = 0
    \/ ~WellFormedB64(B64Part(base64_data, always_split))

\* C7: save_base64_image and _save_image on malformed base64 return None and
\* write nothing.
C7_MalformedWritesNothing ==
    /\ (last.op = "save_base64_image" /\ Malformed(last.base64_data, FALSE))
       => (last.ret = None /\ ~last.changed)
    /\ (last.op = "_save_image" /\ Malformed(last.base64_data, TRUE))
       => (last.ret = None /\ ~last.changed)

\* C9: save_image with a filename writes the bytes to storage_path/filename,
\* making the directories that are missing: it does not raise, and the file
\* holds the bytes.
C9_SaveCreatesParents ==
    (last.op = "save_image" /\ last.filename # None)
    => /\ ~last.raised
       /\ is_file(PathJoin(storage_path,
                           Path(with_extension(last.filename, last.extension))))
       /\ read_bytes(PathJoin(storage_path,
                              Path(with_extension(last.filename, last.extension))))
          = last.image_data

-----------------------------------------------------------------------------
(* Properties of cleanup and bulk deletion *)

\* A stored image and a reference have the same resolved absolute path, the
\* same bare filename, or the same path string.
SameFile(stored_image, path) ==
    \/ ResolveStr(Path(stored_image)) = ResolveStr(Path(path))
    \/ PathName(Path(stored_image)) = PathName(Path(path))
    \/ stored_image = path

\* The absolute path of a listed image.
FileOf(stored_image) == Resolve(Path(stored_image))

\* C3: cleanup_orphaned_images(T, dry_run=False) deletes no stored image that
\* some local reference of T names by resolved path, bare filename or path
\* string: the file is still there with its bytes and is not returned.
C3_ReferencedKept ==
    (last.op = "cleanup_orphaned_images" /\ ~last.dry_run)
    => \A stored_image \in Range(last.listed) :
           (\E path \in extract_image_paths(last.markdown_content) :
                SameFile(stored_image, path))
           => /\ FileOf(stored_image) \in DOMAIN fs
              /\ fs[FileOf(stored_image)] = last.before[FileOf(stored_image)]
              /\ stored_image \notin Range(last.ret)

\* C3 witness: a cleanup deleted one image and kept another that the text
\* names by its bare filename only.
C3_Witness ==
    /\ last.op = "cleanup_orphaned_images" /\ ~last.dry_run
    /\ last.ret # <<>>
    /\ DOMAIN fs # DOMAIN last.before
    /\ \E stored_image \in Range(last.listed) :
        /\ stored_image \notin Range(last.ret)
        /\ stored_image \notin extract_image_paths(last.markdown_content)
        /\ \E path \in extract_image_paths(last.markdown_content) :
               PathName(Path(stored_image)) = PathName(Path(path))

\* C4: cleanup_orphaned_images(T, dry_run=True) leaves every file as it was and
\* returns, in listing order, exactly the stored images that no reference of T
\* matches by resolved path or by bare filename.
C4_DryRunReportsOnly ==
    (last.op = "cleanup_orphaned_images" /\ last.dry_run)
    => /\ fs = last.before
       /\ last.ret = SelectSeq(last.listed, LAMBDA stored_image :
              \A path \in extract_image_paths(last.markdown_content) :
                  /\ ResolveStr(Path(stored_image)) # ResolveStr(Path(path))
                  /\ PathName(Path(stored_image)) # PathName(Path(path)))

\* C4 witness: a dry run over two stored images reported one of them.
C4_Witness ==
    /\ last.op = "cleanup_orphaned_images" /\ last.dry_run
    /\ Len(last.listed) = 2
    /\ Len(last.ret) = 1
    /\ fs = last.before

\* The listed images of the last bulk call that it was to delete.
Targeted ==
    IF last.op = "delete_all_images" THEN Range(last.listed) ELSE Range(last.ret)

\* C8: in delete_all_images and cleanup_orphaned_images(dry_run=False) a failed
\* unlink is isolated: every other targeted file is gone, the failing ones and
\* the files not targeted are as before, and delete_all_images returns the
\* number of files it removed.
C8_FailureIsolated ==
    (last.op = "delete_all_images" \/ (last.op = "cleanup_orphaned_images" /\ ~last.dry_run))
    => /\ \A stored_image \in Targeted \ last.failing :
              FileOf(stored_image) \notin DOMAIN fs
       /\ \A a \in DOMAIN last.before :
              (\A stored_image \in Targeted \ last.failing : FileOf(stored_image) # a)
              => (a \in DOMAIN fs /\ fs[a] = last.before[a])
       /\ last.op = "delete_all_images"
              => last.ret = Cardinality(DOMAIN last.before) - Cardinality(DOMAIN fs)

\* C8 witness: a bulk deletion in which one unlink failed and another file was
\* removed.
C8_Witness ==
    /\ last.op = "delete_all_images"
    /\ last.failing # {}
    /\ last.ret >= 1
    /\ Cardinality(DOMAIN last.before) > Cardinality(DOMAIN fs)

\* C18: after cleanup_orphaned_images(T, dry_run=False) in which no unlink
\* failed, list_stored_images() is the listing before the call without the
\* returned orphans, in the same order, and no returned path exists any more;
\* a cleanup_orphaned_images(T) called right after it returns the empty list
\* and changes no file.
C18_CleanupSettles ==
    last.op = "cleanup_orphaned_images" =>
        /\ (~last.dry_run /\ last.failing = {})
           => /\ list_stored_images
                    = SelectSeq(last.listed, LAMBDA stored_image :
                                    stored_image \notin Range(last.ret))
              /\ \A stored_image \in Range(last.ret) :
                     /\ FileOf(stored_image) \notin DOMAIN fs
                     /\ ~exists(Path(stored_image))
        /\ last.repeat => (last.ret = <<>> /\ fs = last.before)

\* C18 happens: of two stored images a cleanup deleted one and kept the other.
C18_Witness ==
    /\ last.op = "cleanup_orphaned_images" /\ ~last.dry_run /\ last.failing = {}
    /\ Len(last.listed) = 2
    /\ Len(last.ret) = 1
    /\ Len(list_stored_images) = 1

\* C18 happens for the repeated call: the cleanup before it had deleted an
\* image for the same text.
C18_Repeated ==
    /\ last.op = "cleanup_orphaned_images" /\ last.repeat
    /\ last.ret = <<>>
    /\ DOMAIN fs # {}

-----------------------------------------------------------------------------
(* Properties of the render cache *)

\* C1: the defaultValue decision of st_markdown is "suppressed" (None) exactly
\* when the latest earlier call for the same cache key was given text with the
\* same hash; otherwise the preview content is sent.  So the same text twice in
\* a row gives content and then suppressed, and a changed text gives content
\* again.
C1_SuppressedIffSameHash ==
    last.op = "st_markdown" =>
        LET same == /\ last.prev_value # None
                    /\ hexdigest(last.prev_value) = hexdigest(last.value)
        IN  /\ last.send_default = None <=> same
            /\ ~same => last.send_default = last.preview_value
            /\ last.prev_value = last.value => last.send_default = None
            /\ lastSent[last.cache_key] = hexdigest(last.value)

\* C1 happens: a call is suppressed because the call before it for the same
\* key had the same text, while the other key last had another text.
C1_Witness ==
    /\ last.op = "st_markdown"
    /\ last.send_default = None
    /\ last.prev_value = last.value
    /\ \E k \in CacheKeys : lastValue[k] # None /\ lastValue[k] # last.value

\* C2: the conversion step of st_markdown overwrites the entry of the key with
\* (hash of the text, inlined text) exactly when the key has no entry or its
\* stored hash differs; on a matching hash it returns the stored text, does not
\* call the converter and leaves the entry as it is.  So the converter is not
\* called when the call before for the same key had the same text.
C2_ConvertIffMiss ==
    last.op = "st_markdown" =>
        LET miss == \/ last.prev_cached = None
                    \/ last.prev_cached[1] # hexdigest(last.value)
        IN  /\ miss => /\ cache[last.cache_key] = <<hexdigest(last.value), last.inlined>>
                       /\ last.preview_value = last.inlined
            /\ ~miss => /\ cache[last.cache_key] = last.prev_cached
                        /\ last.preview_value = last.prev_cached[2]
            /\ last.converted => miss
            /\ (miss /\ last.value # <<>>) => last.converted
            /\ last.prev_value = last.value => ~last.converted

\* C2 happens: a call finds the entry of its own text, whose stored conversion
\* is no longer what the converter would give now, and returns it unconverted.
C2_Witness ==
    /\ last.op = "st_markdown"
    /\ last.prev_cached # None
    /\ last.prev_cached[1] = hexdigest(last.value)
    /\ ~last.converted
    /\ last.preview_value # last.inlined

\* C2 also happens the other way: an entry of another text is overwritten.
C2_Overwritten ==
    /\ last.op = "st_markdown"
    /\ last.prev_cached # None
    /\ last.prev_cached[1] # hexdigest(last.value)
    /\ last.converted
    /\ cache[last.cache_key] # last.prev_cached

\* The requests of the last st_markdown call that st_markdown tries to save:
\* those with a payload and a placeholder.
Requests ==
    {i \in DOMAIN last.component_value.images :
         /\ last.component_value.images[i].data # <<>>
         /\ last.component_value.images[i].placeholder # <<>>}

\* What _save_image returns for request i: the saved path, or None.
SavedPath(i) ==
    _save_image(last.component_value.images[i].data, last.image_upload_path,
                last.component_value.images[i].filename).ret

\* The bytes the payload of request i decodes to.
DecodedBytes(i) ==
    LET data == last.component_value.images[i].data
        comma == Find(data, ",", 1)
    IN  b64decode(Slice(data, comma + 1, Len(data))).bytes

\* The text with each lexeme that is the placeholder of a saved request
\* replaced by the request's saved path, and every other lexeme kept.
RECURSIVE Resolved(_)
Resolved(text) ==
    IF text = <<>> THEN <<>>
    ELSE LET saved == {i \in Requests : /\ last.component_value.images[i].placeholder
                                              = <<Head(text)>>
                                        /\ SavedPath(i) # None}
         IN  (IF saved = {} THEN <<Head(text)>>
              ELSE SavedPath(CHOOSE i \in saved : \A j \in saved : i <= j))
             \o Resolved(Tail(text))

\* C19: when st_markdown resolves the image-save requests of the component's
\* value, the placeholder of every request with payload and placeholder whose
\* save succeeds is replaced in the returned content by the saved path, and the
\* file at that path holds the decoded bytes; the placeholder of a request
\* whose save fails stays in the content and the later requests are still
\* processed; the returned images list is empty.
C19_UploadsResolved ==
    (/\ last.op = "st_markdown"
     /\ last.image_upload_path # None
     /\ last.component_value.images # <<>>)
    => /\ last.ret.images = <<>>
       /\ last.ret.content = Resolved(last.component_value.content)
       /\ \A i \in Requests :
              IF SavedPath(i) # None
              THEN /\ Resolve(Path(SavedPath(i))) \in DOMAIN fs
                   /\ fs[Resolve(Path(SavedPath(i)))] = DecodedBytes(i)
                   /\ Find(last.ret.content,
                           last.component_value.images[i].placeholder[1], 1) = 0
              ELSE Find(last.ret.content,
                        last.component_value.images[i].placeholder[1], 1) # 0

\* C19 happens: the save of one request failed, the save of a later one
\* succeeded, and the content has the first placeholder and the second path.
C19_Witness ==
    /\ last.op = "st_markdown"
    /\ last.image_upload_path # None
    /\ \E i, j \in Requests :
           /\ i < j
           /\ SavedPath(i) = None
           /\ SavedPath(j) # None
           /\ Find(last.ret.content, last.component_value.images[i].placeholder[1], 1) # 0
           /\ Find(last.ret.content, last.component_value.images[j].placeholder[1], 1) = 0
           /\ Resolve(Path(SavedPath(j))) \in DOMAIN fs
    /\ last.ret.content # last.component_value.content

\* C20: after every render step of st_markdown for a key with text T, called
\* one after the other, the two dictionaries agree: the hash last sent for the
\* key is the hash of the key's cache entry, and both are the hash of T; so
\* content that is sent is the converted text cached for T.  Between calls
\* the dictionaries agree for every key.
C20_CachesAgree ==
    /\ \A k \in CacheKeys :
           lastSent[k] = IF cache[k] = None THEN None ELSE cache[k][1]
    /\ last.op = "st_markdown" =>
           /\ cache[last.cache_key] # None
           /\ cache[last.cache_key][1] = hexdigest(last.value)
           /\ lastSent[last.cache_key] = hexdigest(last.value)
           /\ last.send_default # None
              => /\ last.send_default = cache[last.cache_key][2]
                 /\ last.send_default = last.preview_value

\* C20 happens: a key whose entry was of another text is rendered with a new
\* text that has an image to convert, and the converted text is sent.
C20_Witness ==
    /\ last.op = "st_markdown"
    /\ last.prev_cached # None
    /\ last.prev_cached[1] # hexdigest(last.value)
    /\ last.send_default # None
    /\ last.send_default = cache[last.cache_key][2]
    /\ last.send_default # last.value

\* C21: on a cache hit the render cache ignores the store: a st_markdown call
\* whose key was last called with the same text gets the converted text that
\* call got, without converting, whatever was saved, deleted or collected in
\* between; the text is that of the files at the last miss, not of the files
\* now.
C21_HitIgnoresStore ==
    (last.op = "st_markdown" /\ last.prev_value = last.value)
    => /\ last.prev_cached # None
       /\ last.prev_cached[1] = hexdigest(last.value)
       /\ ~last.converted
       /\ last.preview_value = last.prev_preview
       /\ cache[last.cache_key] = last.prev_cached

\* C21 happens: the key is called again with its text after the image the
\* text names was deleted; the call gets the data URI of the earlier call,
\* where converting now would leave the reference as written.
C21_Witness ==
    /\ last.op = "st_markdown"
    /\ last.prev_value = last.value
    /\ last.preview_value = last.prev_preview
    /\ last.inlined = last.value
    /\ last.preview_value # last.value

\* C21 happens the other ways: the image was saved, or overwritten with other
\* bytes, after the miss.
C21_SavedSince ==
    /\ last.op = "st_markdown"
    /\ last.prev_value = last.value
    /\ last.preview_value = last.prev_preview
    /\ last.inlined # last.value
    /\ last.preview_value # last.inlined

-----------------------------------------------------------------------------
(* Properties of reference extraction *)

\* The positions i, k, j of an inline image of T: "!" "[" at i, the first "]"
\* after them at k followed by "(", and the first ")" after a non-empty target
\* at j.
IsImageAt(T, i, k, j) ==
    /\ i + 1 <= Len(T) /\ T[i] = "!" /\ T[i + 1] = "["
    /\ k >= i + 2 /\ k + 1 <= Len(T) /\ T[k] = "]" /\ T[k + 1] = "("
    /\ \A x \in (i + 2)..(k - 1) : T[x] # "]"
    /\ j >= k + 3 /\ j <= Len(T) /\ T[j] = ")"
    /\ \A x \in (k + 2)..(j - 1) : T[x] # ")"

\* The inline images of T that start at position i, as triples of positions.
ImagesAt(T, i) ==
    IF T[i] # "!" THEN {}
    ELSE LET at(c) == {x \in (i + 1)..Len(T) : T[x] = c}
         IN  {<<i, e[1], e[2]>> : e \in {e \in at("]") \X at(")") :
                                           IsImageAt(T, i, e[1], e[2])}}

\* The images one pass over T from position n on matches, given the images
\* matched before n: an image is matched unless an image matched before it
\* reaches over its start.
RECURSIVE MatchedFrom(_, _, _)
MatchedFrom(T, n, before) ==
    IF n > Len(T) THEN before
    ELSE UNION {MatchedFrom(T, n + 1, matched) :
                matched \in {IF \A b \in before : b[3] < n
                             THEN before \cup ImagesAt(T, n) ELSE before}}

\* The images one pass over T matches.
MatchedIn(T) == MatchedFrom(T, 1, {})

\* The target of a matched image.
TargetOf(T, t) == Slice(T, t[2] + 2, t[3] - 1)

\* C10: extract_image_paths(T) is exactly the set of the targets of the inline
\* images matched in T that do not start with http://, https:// or data: ; no
\* such target is in the result, and a text without a match gives the empty set.
C10_ExtractsLocalTargets ==
    last.op = "extract_image_paths" =>
        \E T \in {last.markdown_content} :
        \E targets \in {{TargetOf(T, t) : t \in MatchedIn(T)}} :
            /\ last.ret = {p \in targets : p[1] \notin {"http://", "https://", "data:"}}
            /\ \A p \in last.ret : p[1] \notin {"http://", "https://", "data:"}
            /\ targets = {} => last.ret = {}

\* C10 happens: a text with a local, a remote and a data-URI image gives the
\* local target alone.
C10_Witness ==
    /\ last.op = "extract_image_paths"
    /\ LET targets == {TargetOf(last.markdown_content, t) :
                           t \in MatchedIn(last.markdown_content)}
       IN  /\ \E p \in targets : p[1] = "data:"
           /\ \E p \in targets : p[1] \notin {"http://", "https://", "data:"}
    /\ Cardinality(last.ret) = 1

-----------------------------------------------------------------------------
(* Properties of inline conversion *)

\* Whether a target is remote or a data URI.
IsRemote(target) == target[1] \in {"http://", "https://", "data:"}

\* The file a local target names, when it is a regular file this process can
\* read; {} otherwise.
ReadableAt(target) ==
    {a \in DOMAIN fs \ unreadable :
        Stat(Path(target)).ok /\ Stat(Path(target)).at = a}

\* C11: _convert_images_to_base64 returns its input unchanged when every image
\* reference of the input is a remote URL or a data URI, whatever files exist.
C11_RemoteOnlyUnchanged ==
    last.op = "_convert_images_to_base64" =>
        ((\A t \in MatchedIn(last.content) : IsRemote(TargetOf(last.content, t)))
            => last.ret = last.content)

\* C11 happens: a text with remote references only was converted while a
\* file exists at the path a remote target spells, and came back unchanged.
C11_Witness ==
    /\ last.op = "_convert_images_to_base64"
    /\ MatchedIn(last.content) # {}
    /\ \A t \in MatchedIn(last.content) : IsRemote(TargetOf(last.content, t))
    /\ \E t \in MatchedIn(last.content) :
           ReadableAt(TargetOf(last.content, t)) # {}
    /\ last.ret = last.content


\* The MIME type of a converted reference: by the suffix of its target,
\* image/png when the suffix tells nothing.
MimeOf(target) ==
    LET suffix == PathSuffix(Path(target))
    IN  CASE suffix \in {<<".png">>, <<".PNG">>} -> <<"image/png">>
          [] suffix \in {<<".jpg">>, <<".jpeg">>} -> <<"image/jpeg">>
          [] suffix = <<".gif">> -> <<"image/gif">>
          [] suffix = <<".webp">> -> <<"image/webp">>
          [] suffix = <<".svg">> -> <<"image/svg+xml">>
          [] suffix = <<".txt">> -> <<"text/plain">>
          [] OTHER -> <<"image/png">>

\* What stands in the output for position i of T, M being the matched images
\* of T: a readable local reference becomes a data URI with its alt text and
\* the base64 of the file's bytes, any other reference stays as written, and
\* so does the text between references.
PieceAt(T, M, i) ==
    IF \E t \in M : t[1] = i
    THEN LET t == CHOOSE x \in M : x[1] = i
             target == TargetOf(T, t)
         IN  IF ~IsRemote(target) /\ ReadableAt(target) # {}
             THEN <<"!", "[">> \o Slice(T, i + 2, t[2] - 1) \o <<"]", "(", "data:">>
                      \o MimeOf(target) \o <<";base64", ",">>
                      \o b64encode(fs[CHOOSE a \in ReadableAt(target) : TRUE])
                      \o <<")">>
             ELSE Slice(T, t[1], t[3])
    ELSE IF \E t \in M : t[1] < i /\ i <= t[3] THEN <<>>
    ELSE <<T[i]>>

\* C12: _convert_images_to_base64 treats every reference on its own: a local
\* reference whose file is missing, is no regular file or cannot be read stays
\* as written, every readable local reference becomes a data URI with the same
\* alt text whose payload decodes to the file's bytes, the rest of the text is
\* unchanged, a result is returned, and no file is written.
C12_PerReferenceFailure ==
    last.op = "_convert_images_to_base64" =>
        \E T \in {last.content} : \E M \in {MatchedIn(T)} :
            /\ last.ret = Concat([i \in 1..Len(T) |-> PieceAt(T, M, i)])
            /\ \A a \in DOMAIN fs : b64decode(b64encode(fs[a])) = [ok |-> TRUE, bytes |-> fs[a]]
            /\ fs = last.before

\* C12 happens: a text with a reference to an unreadable file and a reference
\* to a readable one was converted; the first stayed and the second changed.
C12_Witness ==
    /\ last.op = "_convert_images_to_base64"
    /\ \E t \in MatchedIn(last.content), u \in MatchedIn(last.content) :
        /\ t[3] < u[1]
        /\ Stat(Path(TargetOf(last.content, t))).ok
        /\ Stat(Path(TargetOf(last.content, t))).at \in unreadable
        /\ ReadableAt(TargetOf(last.content, u)) # {}
        /\ ~IsRemote(TargetOf(last.content, u))
        /\ Slice(last.ret, t[1], t[3]) = Slice(last.content, t[1], t[3])
    /\ Len(last.ret) > Len(last.content)

-----------------------------------------------------------------------------
(* Properties of listing and of retried deletion *)

\* C13: a retried deletion is safe.  delete_all_images right after a
\* delete_all_images that removed every file it listed returns 0 and changes
\* nothing; delete_storage when the storage directory is absent returns True
\* and changes nothing; list_stored_images on a removed store returns [].
C13_RetrySafe ==
    /\ (last.op = "delete_all_images" /\ last.retry)
       => (last.ret = 0 /\ fs = last.before)
    /\ (last.op = "delete_storage" /\ last.absent)
       => (last.ret = TRUE /\ ~last.changed)
    /\ (last.op = "list_stored_images" /\ StorageDir \notin dirs)
       => last.ret = <<>>

\* C13 happens: delete_storage was called again on a store that an earlier
\* delete_storage had removed.
C13_Witness ==
    /\ last.op = "delete_storage"
    /\ last.absent
    /\ last.ret = TRUE
    /\ StorageDir \notin dirs

\* C13 happens for delete_all_images too: the call is a retry.
C13_RetriedDeleteAll ==
    /\ last.op = "delete_all_images"
    /\ last.retry
    /\ last.ret = 0


\* The lexemes that are an image suffix in lower or upper case.
ImageSuffixes == {".png", ".PNG", ".jpg", ".jpeg", ".gif", ".webp", ".svg"}

\* A regular file at absolute path a is an image of the store: it lies
\* directly in the storage directory and its name ends in an image suffix.
Listable(a) ==
    /\ Len(a) = Len(StorageDir) + 1
    /\ Slice(a, 1, Len(StorageDir)) = StorageDir
    /\ Len(a[Len(a)]) >= 2
    /\ a[Len(a)][Len(a[Len(a)])] \in ImageSuffixes

\* C14: list_stored_images returns, once each, exactly the regular files
\* directly in the storage directory whose suffix is an image suffix;
\* delete_all_images targets exactly those, leaves every other file as it was,
\* and when no unlink fails the listing is empty afterwards.
C14_ListsAndDeletesImagesOnly ==
    /\ last.op = "list_stored_images"
       => /\ Range(last.ret) = {<<"s", "/">> \o a[Len(a)] :
                                    a \in {a \in DOMAIN fs : Listable(a)}}
          /\ Len(last.ret) = Cardinality(Range(last.ret))
    /\ last.op = "delete_all_images"
       => /\ Range(last.listed) = {<<"s", "/">> \o a[Len(a)] :
                                       a \in {a \in DOMAIN last.before : Listable(a)}}
          /\ \A a \in DOMAIN last.before :
                 ~Listable(a) => (a \in DOMAIN fs /\ fs[a] = last.before[a])
          /\ DOMAIN fs \subseteq DOMAIN last.before
          /\ last.failing = {}
                 => /\ list_stored_images = <<>>
                    /\ \A a \in DOMAIN fs : ~Listable(a)

\* C14 happens: delete_all_images removed an image and left a file that is
\* no image of the store.
C14_Witness ==
    /\ last.op = "delete_all_images"
    /\ last.failing = {}
    /\ last.ret >= 1
    /\ DOMAIN fs # {}
    /\ DOMAIN fs # DOMAIN last.before

\* C14 happens for the listing: a file in a subdirectory is not listed while an
\* image with an upper-case suffix is.
C14_Listed ==
    /\ last.op = "list_stored_images"
    /\ last.ret = << <<"s", "/", "b", ".PNG">> >>
    /\ Cardinality(DOMAIN fs) = 2

-----------------------------------------------------------------------------
(* Properties of loading *)

\* The MIME type of the extension table of get_image_as_base64 for a path:
\* by the lower-cased suffix, image/png when the table does not have it.
TableMime(path) ==
    LET suffix == Lower(PathSuffix(Path(path)))
    IN  CASE suffix \in {<<".jpg">>, <<".jpeg">>} -> <<"image/jpeg">>
          [] suffix = <<".gif">> -> <<"image/gif">>
          [] suffix = <<".webp">> -> <<"image/webp">>
          [] suffix = <<".svg">> -> <<"image/svg+xml">>
          [] OTHER -> <<"image/png">>

\* C15: get_image_as_base64(path) returns None exactly when get_image(path)
\* returns None; for every file get_image can read, an empty one included, it
\* returns "data:" + MIME type of the suffix (image/png by default)
\* + ";base64," + the base64 of the bytes.
C15_DataUriIffLoad ==
    last.op = "get_image_as_base64" =>
        /\ last.ret = None <=> last.loaded = None
        /\ last.loaded # None
           => last.ret = <<"data:">> \o TableMime(last.path) \o <<";base64", ",">>
                             \o b64encode(last.loaded)

\* The absolute path a relative or absolute path string names, read from the
\* working directory.
GivenAt(path) == Resolve(Path(path))

\* The absolute path a path string names, read from the storage directory.
StoredAt(path) == Resolve(PathJoin(storage_path, Path(path)))

\* C16: get_image(path) reads the path as given first and only then relative
\* to the storage directory: a file at the path as given is returned even when
\* the store has another file of that name; when nothing is at the path as
\* given, the file of the store is returned; when neither place has anything,
\* the result is None.
C16_GivenThenStored ==
    last.op = "get_image" =>
        /\ GivenAt(last.path) \in DOMAIN fs => last.ret = fs[GivenAt(last.path)]
        /\ (GivenAt(last.path) \notin DOMAIN fs \cup dirs
                /\ StoredAt(last.path) \in DOMAIN fs)
           => last.ret = fs[StoredAt(last.path)]
        /\ (GivenAt(last.path) \notin DOMAIN fs \cup dirs
                /\ StoredAt(last.path) \notin DOMAIN fs \cup dirs)
           => last.ret = None

\* C16 happens: the working directory and the store both have a file of the
\* name, with different bytes, and the one of the working directory is loaded.
C16_Witness ==
    /\ last.op = "get_image"
    /\ GivenAt(last.path) \in DOMAIN fs
    /\ StoredAt(last.path) \in DOMAIN fs
    /\ fs[GivenAt(last.path)] # fs[StoredAt(last.path)]
    /\ last.ret = fs[GivenAt(last.path)]

\* C16 happens for the second place: only the store has the file.
C16_FromStore ==
    /\ last.op = "get_image"
    /\ GivenAt(last.path) \notin DOMAIN fs \cup dirs
    /\ StoredAt(last.path) \in DOMAIN fs
    /\ last.ret = fs[StoredAt(last.path)]

-----------------------------------------------------------------------------
(* Properties of concurrent render steps *)

\* C17: the render steps of one key are serialized: when two callers have run
\* the render step for the same key with the same text, which was a changed
\* text when each of them called, exactly one of them received the content to
\* send and the other was suppressed.
C17_ExactlyOneSends ==
    \A c1, c2 \in Callers :
        (/\ c1 # c2
         /\ callers[c1].pc = "done" /\ callers[c2].pc = "done"
         /\ callers[c1].changed /\ callers[c2].changed
         /\ cache_key_of(callers[c1].key) = cache_key_of(callers[c2].key)
         /\ callers[c1].value = callers[c2].value)
        => callers[c1].suppressed # callers[c2].suppressed

\* C17, the lost update: when all callers are done, the hash last sent for a
\* key and the hash of the key's cache entry are those of the same text.
C17_NoLostUpdate ==
    (\A c \in Callers : callers[c].pc = "done")
    => \A c \in Callers :
           lastSent[cache_key_of(callers[c].key)] = cache[cache_key_of(callers[c].key)][1]

-----------------------------------------------------------------------------
(* Properties of the index *)

\* The path strings list_stored_images() returns now.
Indexed == Range(list_stored_images)

\* C22: every file save_base64_image wrote with no filename is in the
\* listing: the path a save returns has one of the suffixes
\* list_stored_images recognizes and is listed right after the save, and as
\* long as the file exists it stays listed; so delete_all_images with no
\* failing unlink removes it and cleanup_orphaned_images of a text that does
\* not name it reports it.
C22_EncodedSavesIndexed ==
    /\ \A a \in DOMAIN fs : \E stored_image \in Indexed : FileOf(stored_image) = a
    /\ (last.op = "save_base64_image" /\ last.filename = None /\ last.ret # None)
       => /\ last.ret \in Indexed
          /\ FileOf(last.ret) \in DOMAIN fs
          /\ PathSuffix(Path(last.ret)) # <<>>
          /\ PathSuffix(Path(last.ret))[1] \in ImageSuffixes
    /\ (last.op = "delete_all_images" /\ last.failing = {})
       => /\ DOMAIN fs = {}
          /\ last.ret = Cardinality(DOMAIN last.before)
    /\ last.op = "cleanup_orphaned_images"
       => /\ \A a \in DOMAIN last.before :
                 \E stored_image \in Range(last.ret) : FileOf(stored_image) = a
          /\ ~last.dry_run => DOMAIN fs = {}

\* C22 happens: a save of a data URI whose type the inference does not know
\* returned a path, an earlier save's file is still there, and both are listed.
C22_Witness ==
    /\ last.op = "save_base64_image" /\ last.filename = None
    /\ last.ret # None
    /\ InStr("image/bmp", last.base64_data)
    /\ last.ret \in Indexed
    /\ Cardinality(Indexed) = 2
    /\ Cardinality(DOMAIN fs) = 2

\* C22 happens for the deletion: delete_all_images removed two such files.
C22_Deleted ==
    /\ last.op = "delete_all_images" /\ last.failing = {}
    /\ last.ret = 2
    /\ DOMAIN fs = {}

=============================================================================
